---------------------------- MODULE Spec2Model ----------------------------
(***************************************************************************)
(* Bitcoin_Trading: the portfolio ledger (backtesting/portfolio.py) and    *)
(* the backtest execution loop (backtesting/backtest_engine.py).           *)
(*                                                                         *)
(* Money is held in mills (1/1000 of a currency unit) and the commission   *)
(* rate in per-mille, so that price * quantity * commission_rate is an     *)
(* exact integer: the model computes with exact arithmetic where the       *)
(* program computes with Python floats.                                    *)
(***************************************************************************)
EXTENDS Integers, Sequences, FiniteSets, TLC

\* ------------------------------------------------------------------ bounds
\* Ledger calls made directly on a Portfolio (specification Spec).
MaxCalls == 3
\* Rows of a loaded market-data series (specification SpecRun).
MaxRows == 2
\* Calls of BacktestEngine.run on one engine (specification SpecRun).
MaxRuns == 2
\* generate_signals calls the caller makes itself, beside the engine's
MaxDirect == 1
\* Points of an equity curve handed to PerformanceMetrics (SpecMetrics).
MaxCurve == 4
\* execute_trade and record_equity calls on one Portfolio (SpecPortfolio).
MaxOps == 2
\* Rows of the market data a built-in strategy is run on (SpecMeanReversion).
MaxBars == 3

\* ------------------------------------------------------------------ inputs
Symbols == {"BTC-PERPETUAL", "ETH-PERPETUAL"}
Sides == {"buy", "sell"}
Prices == {25000, 50000}
Quantities == {1, 2}
Timestamps == {1, 2}
\* initial_capital, in currency units.
Capitals == {0, 100000, 100100}
\* commission_rate, in per-mille: 0, the default 0.001, and 0.999.
Rates == {0, 1, 999}

\* Currency units to mills.
Mills(x) == x * 1000

\* BacktestEngine(strategy) with the default initial_capital and commission_rate.
DefaultCapital == 100000
DefaultRate == 1

VARIABLES
    \* Portfolio
    initial_capital,   \* mills
    commission_rate,   \* per-mille
    cash,              \* mills
    positions,         \* function: symbols traded so far -> quantity
    trades,            \* sequence of trade records
    equity_curve,      \* sequence of equity points
    \* the last call made on the Portfolio, with its return value
    call,
    ncalls,
    \* Strategy
    plan,              \* the strategy's decisions on the loaded series, once asked
    is_initialized,
    fills,             \* the orders on_order_filled has received
    init_count,        \* invocations of strategy.initialize
    gen_count,         \* invocations of strategy.generate_signals
    supplies_prices,   \* the strategy prices its signals itself, not from the data
    \* BacktestEngine
    loaded,            \* self.data is not None
    data,              \* sequence of rows [timestamp, price]
    columns,           \* self.data.columns
    api,               \* the last call on the engine: its argument as the call
                       \* left it, and the exception it raised
    results,           \* self.results
    \* BacktestEngine.run in progress
    pc,
    symbol,
    signals_df,
    idx,
    order,             \* locals of the row: timestamp, side, price, quantity
    runs

ledger == <<initial_capital, commission_rate, cash, positions, trades, equity_curve>>
caller == <<call, ncalls>>
strategy == <<plan, is_initialized, fills, init_count, gen_count, supplies_prices>>
engine == <<loaded, data, columns, api, results, pc, symbol, signals_df, idx, order, runs>>
vars == <<ledger, caller, strategy, engine>>

\* ------------------------------------------------------------- Portfolio

None == [none |-> TRUE]

\* No call made on the Portfolio yet.
NoCall ==
    [op |-> "none", timestamp |-> 0, symbol |-> "", side |-> "", price |-> 0,
     quantity |-> 0, ret |-> FALSE]

\* No call made on the engine yet.
NoApi == [op |-> "none", given |-> <<>>, cols |-> {}, arg |-> <<>>, error |-> "none"]

\* A call of run: it takes no data.
RunCall(error) == [NoApi EXCEPT !.op = "run", !.error = error]

\* A call of load_data: the frame handed in and its columns, the frame as the
\* call leaves it, and what the call raised.
LoadCall(d, cols, after, error) ==
    [op |-> "load_data", given |-> d, cols |-> cols, arg |-> after, error |-> error]

\* A strategy that has not been asked for signals yet.
NoPlan == [decided |-> FALSE, rows |-> <<>>]

\* self.positions.get(symbol, 0)
get_position(pos, sym) == IF sym \in DOMAIN pos THEN pos[sym] ELSE 0

\* self.positions[symbol] = value
SetPosition(pos, sym, value) ==
    [s \in DOMAIN pos \cup {sym} |-> IF s = sym THEN value ELSE pos[s]]

\* trade_value = price * quantity (in mills)
TradeValue(price, quantity) == Mills(price * quantity)

\* commission = trade_value * self.commission_rate (in mills; rate in per-mille)
Commission(price, quantity, rate) == price * quantity * rate

\* Mutant: a buy is charged no commission.
TotalCostWithoutCommission(price, quantity, rate) == TradeValue(price, quantity)

\* total_cost = trade_value + commission
TotalCost(price, quantity, rate) ==
    TradeValue(price, quantity) + Commission(price, quantity, rate)

\* Mutant: the commission is added to the proceeds of a sell.
TotalProceedsPlusCommission(price, quantity, rate) ==
    TradeValue(price, quantity) + Commission(price, quantity, rate)

\* total_proceeds = trade_value - commission
TotalProceeds(price, quantity, rate) ==
    TradeValue(price, quantity) - Commission(price, quantity, rate)

\* Mutant: a buy that costs exactly the cash at hand is rejected.
InsufficientFundsAtBoundary(total_cost, c) == total_cost >= c

\* Mutant: a buy is rejected only when no cash is left.
InsufficientFundsOnlyWhenBroke(total_cost, c) == c <= 0

\* if total_cost > self.cash: return False
InsufficientFunds(total_cost, c) == total_cost > c

\* Mutant: a sell is rejected only when nothing is held.
InsufficientPositionOnlyWhenFlat(held, quantity) == held <= 0

\* if self.positions.get(symbol, 0) < quantity: return False
InsufficientPosition(held, quantity) == held < quantity

\* The ledger part a trade works on.
Book(c, pos, log) == [cash |-> c, positions |-> pos, trades |-> log, ret |-> TRUE]

\* Mutant: a rejected order is written to the trade log.
RejectedButLogged(b) ==
    [b EXCEPT !.trades = Append(b.trades, [rejected |-> TRUE]), !.ret = FALSE]

\* return False: the ledger as it was.
Rejected(b) == [b EXCEPT !.ret = FALSE]

\* self.cash -= total_cost; self.positions[symbol] = get(symbol, 0) + quantity
Bought(b, sym, total_cost, quantity) ==
    [b EXCEPT !.cash = b.cash - total_cost,
              !.positions = SetPosition(b.positions, sym,
                                get_position(b.positions, sym) + quantity)]

\* self.cash += total_proceeds; self.positions[symbol] = get(symbol, 0) - quantity
Sold(b, sym, total_proceeds, quantity) ==
    [b EXCEPT !.cash = b.cash + total_proceeds,
              !.positions = SetPosition(b.positions, sym,
                                get_position(b.positions, sym) - quantity)]

\* Mutant: the newest trade is put at the head of the log.
RecordedFirst(b, timestamp, sym, side, price, quantity, commission) ==
    [b EXCEPT !.trades = <<[timestamp |-> timestamp, symbol |-> sym, side |-> side,
                            price |-> price, quantity |-> quantity,
                            commission |-> commission, cash |-> b.cash]>>
                         \o b.trades,
              !.ret = TRUE]

\* Mutant: the record carries the cash before the commission was charged.
RecordedBeforeCommission(b, timestamp, sym, side, price, quantity, commission) ==
    [b EXCEPT !.trades = Append(b.trades,
                  [timestamp |-> timestamp, symbol |-> sym, side |-> side,
                   price |-> price, quantity |-> quantity,
                   commission |-> commission, cash |-> b.cash + commission]),
              !.ret = TRUE]

\* trade = {...}; self.trades.append(trade); return True
Recorded(b, timestamp, sym, side, price, quantity, commission) ==
    [b EXCEPT !.trades = Append(b.trades,
                  [timestamp |-> timestamp, symbol |-> sym, side |-> side,
                   price |-> price, quantity |-> quantity,
                   commission |-> commission, cash |-> b.cash]),
              !.ret = TRUE]

\* Portfolio.execute_trade as a function of the ledger: any other side falls
\* through both branches to the record.
execute_trade(b, rate, timestamp, sym, side, price, quantity) ==
    LET commission == Commission(price, quantity, rate)
    IN  IF side = "buy"
        THEN IF InsufficientFunds(TotalCost(price, quantity, rate), b.cash)
             THEN Rejected(b)
             ELSE Recorded(Bought(b, sym, TotalCost(price, quantity, rate), quantity),
                           timestamp, sym, side, price, quantity, commission)
        ELSE IF side = "sell"
        THEN IF InsufficientPosition(get_position(b.positions, sym), quantity)
             THEN Rejected(b)
             ELSE Recorded(Sold(b, sym, TotalProceeds(price, quantity, rate), quantity),
                           timestamp, sym, side, price, quantity, commission)
        ELSE Recorded(b, timestamp, sym, side, price, quantity, commission)

\* One call of Portfolio.execute_trade.
ExecuteTrade(timestamp, sym, side, price, quantity) ==
    LET b == execute_trade(Book(cash, positions, trades), commission_rate,
                           timestamp, sym, side, price, quantity)
    IN  /\ cash' = b.cash
        /\ positions' = b.positions
        /\ trades' = b.trades
        /\ call' = [op |-> "execute_trade", timestamp |-> timestamp, symbol |-> sym,
                    side |-> side, price |-> price, quantity |-> quantity,
                    ret |-> b.ret]
        /\ ncalls' = ncalls + 1
        /\ UNCHANGED <<initial_capital, commission_rate, equity_curve>>

\* Portfolio.get_portfolio_value: prices is a function symbol -> price (currency
\* units); a held symbol without a price counts 0.
\* Mutant: a held symbol without a price is valued at the price 1.
RECURSIVE SumPositionsUnpricedAtOne(_, _, _)
SumPositionsUnpricedAtOne(pos, prices, syms) ==
    IF syms = {} THEN 0
    ELSE LET s == CHOOSE x \in syms : TRUE
         IN  pos[s] * (IF s \in DOMAIN prices THEN Mills(prices[s]) ELSE Mills(1))
             + SumPositionsUnpricedAtOne(pos, prices, syms \ {s})

RECURSIVE SumPositions(_, _, _)
SumPositions(pos, prices, syms) ==
    IF syms = {} THEN 0
    ELSE LET s == CHOOSE x \in syms : TRUE
         IN  pos[s] * (IF s \in DOMAIN prices THEN Mills(prices[s]) ELSE 0)
             + SumPositions(pos, prices, syms \ {s})

\* Mutant: the value of the positions alone.
get_portfolio_value_PositionsOnly(c, pos, prices) ==
    SumPositions(pos, prices, DOMAIN pos)

get_portfolio_value(c, pos, prices) == c + SumPositions(pos, prices, DOMAIN pos)

\* The point Portfolio.record_equity appends.
EquityPoint(timestamp, c, pos, prices) ==
    [timestamp |-> timestamp,
     equity |-> get_portfolio_value(c, pos, prices),
     cash |-> c,
     positions_value |-> get_portfolio_value(c, pos, prices) - c]

\* Mutant: a point with the timestamp of the last one replaces it.
RecordEquityOncePerTimestamp(timestamp, prices) ==
    /\ equity_curve' =
          IF Len(equity_curve) > 0 /\ equity_curve[Len(equity_curve)].timestamp = timestamp
          THEN [equity_curve EXCEPT ![Len(equity_curve)] =
                    EquityPoint(timestamp, cash, positions, prices)]
          ELSE Append(equity_curve, EquityPoint(timestamp, cash, positions, prices))
    /\ UNCHANGED <<initial_capital, commission_rate, cash, positions, trades>>

\* One call of Portfolio.record_equity.
RecordEquity(timestamp, prices) ==
    /\ equity_curve' = Append(equity_curve, EquityPoint(timestamp, cash, positions, prices))
    /\ UNCHANGED <<initial_capital, commission_rate, cash, positions, trades>>

\* Portfolio.__init__
PortfolioInit(capital, rate) ==
    /\ initial_capital = Mills(capital)
    /\ cash = Mills(capital)
    /\ commission_rate = rate
    /\ positions = <<>>
    /\ trades = <<>>
    /\ equity_curve = <<>>
    /\ call = NoCall
    /\ ncalls = 0

\* No engine around the Portfolio.
NoEngine ==
    /\ plan = NoPlan
    /\ supplies_prices = FALSE
    /\ is_initialized = FALSE
    /\ fills = <<>>
    /\ init_count = 0
    /\ gen_count = 0
    /\ loaded = FALSE
    /\ data = <<>>
    /\ columns = {}
    /\ api = NoApi
    /\ results = None
    /\ pc = "idle"
    /\ symbol = "BTC-PERPETUAL"
    /\ signals_df = <<>>
    /\ idx = 0
    /\ order = None
    /\ runs = 0

\* ---------------------------------------------- Spec: the ledger, called
\* directly with inputs that meet execute_trade's documented preconditions.

Init ==
    /\ \E capital \in Capitals, rate \in Rates : PortfolioInit(capital, rate)
    /\ NoEngine

CallExecuteTrade ==
    /\ ncalls < MaxCalls
    /\ \E timestamp \in Timestamps, sym \in Symbols, side \in Sides,
          price \in Prices, quantity \in Quantities :
            ExecuteTrade(timestamp, sym, side, price, quantity)
    /\ UNCHANGED <<strategy, engine>>

\* What a caller may pass as side and quantity: the type hints are str and float.
AnySides == Sides \cup {"hold"}
AnyQuantities == Quantities \cup {0}

\* The first call on the Portfolio of a new engine is an execute_trade with any
\* side and quantity, at one timestamp and one price.
CallExecuteTradeAny ==
    /\ ncalls = 0
    /\ ~loaded
    /\ \E sym \in Symbols, side \in AnySides, quantity \in AnyQuantities :
            ExecuteTrade(1, sym, side, 50000, quantity)
    /\ UNCHANGED <<strategy, engine>>

CallRecordEquity ==
    /\ ncalls < MaxCalls
    /\ \E timestamp \in Timestamps, sym \in Symbols, price \in Prices :
            /\ RecordEquity(timestamp, [s \in {sym} |-> price])
            /\ call' = [NoCall EXCEPT !.op = "record_equity", !.timestamp = timestamp]
    /\ ncalls' = ncalls + 1
    /\ UNCHANGED <<strategy, engine>>

Next == CallExecuteTrade \/ CallRecordEquity

Spec == Init /\ [][Next]_vars


\* ------------------------------------------------------------------ floats

\* A float is modelled exactly: a fraction in lowest terms with a positive
\* denominator, an infinity, or NaN.
RECURSIVE GCD(_, _)
GCD(a, b) == IF b = 0 THEN a ELSE GCD(b, a % b)

Abs(n) == IF n < 0 THEN 0 - n ELSE n

NaN == [kind |-> "nan", num |-> 0, den |-> 1]
Infinity(sign) == [kind |-> "inf", num |-> sign, den |-> 1]
Float(n, d) ==
    LET g == GCD(Abs(n), d)
    IN  [kind |-> "finite", num |-> n \div g, den |-> d \div g]

\* n / d as a pandas Series of floats divides: x / 0 is NaN for x = 0 and an
\* infinity otherwise.
Divide(n, d) ==
    IF d = 0
    THEN IF n = 0 THEN NaN ELSE Infinity(IF n < 0 THEN -1 ELSE 1)
    ELSE IF d < 0 THEN Float(0 - n, 0 - d) ELSE Float(n, d)

\* a < b on floats; every comparison with NaN is false.
Less(a, b) ==
    CASE a.kind = "nan" \/ b.kind = "nan" -> FALSE
      [] a.kind = "inf" /\ b.kind = "inf" -> a.num < b.num
      [] a.kind = "inf" -> a.num < 0
      [] b.kind = "inf" -> b.num > 0
      [] OTHER -> a.num * b.den < b.num * a.den

\* ------------------- SpecPortfolio: a Portfolio and all of its operations

\* return {}
EmptyMapping == [k \in {} |-> 0]

\* Mutant: the mapping handed out is the ledger's own.
copy_SameObject(pos) == [value |-> pos, shared |-> TRUE]

\* self.positions.copy(): a mapping of its own, with the ledger's entries.
copy(pos) == [value |-> pos, shared |-> FALSE]

\* Mutant: the return is measured from the cash, not from the last equity.
get_stats_OfCash(curve, capital, log, c, pos) ==
    IF Len(curve) = 0 THEN EmptyMapping
    ELSE [initial_capital |-> capital,
          final_equity |-> c,
          total_return |-> Divide(c - capital, capital),
          total_trades |-> Len(log),
          final_cash |-> c,
          final_positions |-> copy(pos)]

\* Portfolio.get_stats
get_stats(curve, capital, log, c, pos) ==
    IF Len(curve) = 0 THEN EmptyMapping
    ELSE [initial_capital |-> capital,
          final_equity |-> curve[Len(curve)].equity,
          total_return |-> Divide(curve[Len(curve)].equity - capital, capital),
          total_trades |-> Len(log),
          final_cash |-> c,
          final_positions |-> copy(pos)]

\* The current_prices mappings handed to the ledger: any of the symbols may be
\* missing from them.
PriceMaps ==
    {[s \in {} |-> 0],
     [s \in {"BTC-PERPETUAL"} |-> 50000],
     [s \in {"ETH-PERPETUAL"} |-> 25000],
     [s \in Symbols |-> IF s = "BTC-PERPETUAL" THEN 50000 ELSE 25000]}

\* An operation that only reads: what it was given and what it returned.
Read(op, arg, value) ==
    /\ call' = [NoCall EXCEPT !.op = op]
    /\ results' = [arg |-> arg, value |-> value]
    /\ UNCHANGED <<ledger, ncalls, strategy, loaded, data, columns, api, pc,
                   symbol, signals_df, idx, order, runs>>

InitPortfolio ==
    /\ PortfolioInit(DefaultCapital, DefaultRate)
    /\ NoEngine

CallExecuteTradeOn ==
    /\ ncalls < MaxOps
    /\ \E timestamp \in Timestamps, sym \in Symbols, side \in Sides,
          price \in Prices, quantity \in Quantities :
            ExecuteTrade(timestamp, sym, side, price, quantity)
    /\ UNCHANGED <<strategy, engine>>

CallRecordEquityAt ==
    /\ ncalls < MaxOps
    /\ \E timestamp \in Timestamps, prices \in PriceMaps :
            /\ RecordEquity(timestamp, prices)
            /\ call' = [NoCall EXCEPT !.op = "record_equity", !.timestamp = timestamp]
            /\ results' = [arg |-> prices, value |-> None]
    /\ ncalls' = ncalls + 1
    /\ UNCHANGED <<strategy, loaded, data, columns, api, pc, symbol, signals_df,
                   idx, order, runs>>

CallGetPosition ==
    \E sym \in Symbols : Read("get_position", sym, get_position(positions, sym))

CallGetPortfolioValue ==
    \E prices \in PriceMaps :
        Read("get_portfolio_value", prices,
             get_portfolio_value(cash, positions, prices))

CallGetEquityCurve == Read("get_equity_curve", None, equity_curve)

CallGetTradesDf == Read("get_trades_df", None, trades)

CallGetStats ==
    Read("get_stats", None,
         get_stats(equity_curve, initial_capital, trades, cash, positions))

\* The caller writes into the final_positions mapping get_stats returned.
MutateFinalPositions ==
    /\ call.op = "get_stats"
    /\ DOMAIN results.value # {}
    /\ \E sym \in Symbols, quantity \in Quantities :
          /\ results' = [results EXCEPT !.value.final_positions.value =
                                            SetPosition(@, sym, quantity + 2)]
          /\ positions' = IF results.value.final_positions.shared
                          THEN SetPosition(positions, sym, quantity + 2)
                          ELSE positions
    /\ call' = [NoCall EXCEPT !.op = "mutate"]
    /\ UNCHANGED <<initial_capital, commission_rate, cash, trades, equity_curve,
                   ncalls, strategy, loaded, data, columns, api, pc, symbol,
                   signals_df, idx, order, runs>>

NextPortfolio ==
    \/ CallExecuteTradeOn
    \/ CallRecordEquityAt
    \/ CallGetPosition
    \/ CallGetPortfolioValue
    \/ CallGetEquityCurve
    \/ CallGetTradesDf
    \/ CallGetStats
    \/ MutateFinalPositions

SpecPortfolio == InitPortfolio /\ [][NextPortfolio]_vars

\* ------------------------------------------------- claims on the ledger (Spec)

\* A step that is one call of execute_trade; call' holds its arguments and result.
TradeStep == ncalls' = ncalls + 1 /\ call'.op = "execute_trade"

\* s is a prefix of t.
IsPrefix(s, t) == Len(s) <= Len(t) /\ SubSeq(t, 1, Len(s)) = s

\* C1: every successful buy of q at p changes cash by exactly
\* -(p*q + p*q*commission_rate) and the symbol's position by +q; every
\* successful sell changes cash by exactly +(p*q - p*q*commission_rate) and the
\* position by -q. With capital 100000 and rate 0.001, a single buy of 1 at
\* 50000 leaves cash 49950 and position 1.
C1_CashConservation ==
    /\ [][(TradeStep /\ call'.ret) =>
            LET p == call'.price
                q == call'.quantity
                s == call'.symbol
                value == 1000 * p * q
                fee == p * q * commission_rate
            IN  /\ call'.side = "buy" =>
                      /\ cash' = cash - (value + fee)
                      /\ get_position(positions', s) = get_position(positions, s) + q
                /\ call'.side = "sell" =>
                      /\ cash' = cash + (value - fee)
                      /\ get_position(positions', s) = get_position(positions, s) - q
         ]_vars
    /\ [](( /\ initial_capital = 100000 * 1000
            /\ commission_rate = 1
            /\ Len(trades) = 1
            /\ trades[1].side = "buy" /\ trades[1].price = 50000
            /\ trades[1].quantity = 1 )
          => cash = 49950 * 1000 /\ get_position(positions, trades[1].symbol) = 1)

\* C1 witness: the scenario's buy (100000 at 0.001, 1 at 50000, cash 49950),
\* followed by a successful sell.
C1_Witness ==
    /\ initial_capital = 100000 * 1000
    /\ commission_rate = 1
    /\ Len(trades) = 2
    /\ trades[1].side = "buy" /\ trades[1].price = 50000 /\ trades[1].quantity = 1
    /\ trades[1].cash = 49950 * 1000
    /\ trades[2].side = "sell"
    /\ call.op = "execute_trade" /\ call.ret

\* C2: whenever execute_trade returns False, cash, every position and the trade
\* log are as they were before the call; selling 2 while holding 1 is such a
\* call.
C2_RejectionChangesNothing ==
    /\ [][(TradeStep /\ ~call'.ret) =>
            cash' = cash /\ positions' = positions /\ trades' = trades]_vars
    /\ [][(TradeStep /\ call'.side = "sell" /\ call'.quantity = 2
              /\ get_position(positions, call'.symbol) = 1) => ~call'.ret]_vars

\* C2 witness: a sell of 2 was rejected while 1 is held.
C2_Witness ==
    /\ call.op = "execute_trade"
    /\ ~call.ret
    /\ call.side = "sell" /\ call.quantity = 2
    /\ get_position(positions, call.symbol) = 1

\* C3: a buy is rejected iff cash < price*quantity*(1+commission_rate), a sell
\* iff the position < quantity; a buy that costs exactly the cash and a sell of
\* exactly the position succeed and leave cash, or the position, exactly 0; a
\* rejection is the return value False.
C3_RejectionCondition ==
    [][TradeStep =>
        LET p == call'.price
            q == call'.quantity
            held == get_position(positions, call'.symbol)
        IN  /\ call'.ret \in BOOLEAN
            /\ call'.side = "buy" =>
                  /\ ~call'.ret <=> cash < p * q * (1000 + commission_rate)
                  /\ cash = p * q * (1000 + commission_rate) =>
                        call'.ret /\ cash' = 0
            /\ call'.side = "sell" =>
                  /\ ~call'.ret <=> held < q
                  /\ held = q =>
                        call'.ret /\ get_position(positions', call'.symbol) = 0
      ]_vars

\* C3 witness: a buy that took the cash to exactly 0, then a sell that took the
\* position to exactly 0.
C3_Witness ==
    /\ Len(trades) = 2
    /\ trades[1].side = "buy" /\ trades[1].cash = 0
    /\ trades[2].side = "sell" /\ trades[2].symbol = trades[1].symbol
    /\ get_position(positions, trades[2].symbol) = 0
    /\ commission_rate = 1

\* C4: with price > 0, quantity > 0 and side buy or sell, the position of every
\* symbol is >= 0 in every reachable state.
C4_PositionsNonNegative ==
    /\ \A s \in DOMAIN positions : positions[s] >= 0
    /\ \A s \in Symbols : get_position(positions, s) >= 0

\* C4 witness: one symbol sold back to 0 while the other is still held.
C4_Witness ==
    \E s, t \in DOMAIN positions :
        /\ positions[s] = 0
        /\ positions[t] > 0
        /\ call.op = "execute_trade" /\ call.side = "sell" /\ call.ret

\* C5: from initial_capital >= 0 with commission_rate in [0, 1), cash is >= 0 in
\* every reachable state: a buy never takes cash below zero and a sell never
\* decreases cash.
C5_CashNonNegative ==
    /\ [](cash >= 0)
    /\ [][(TradeStep /\ call'.ret /\ call'.side = "buy") => cash' >= 0 /\ cash' <= cash]_vars
    /\ [][(TradeStep /\ call'.side = "sell") => cash' >= cash]_vars

\* C5 witness: at the highest rate, a buy and a sell have been paid for and
\* some cash is left.
C5_Witness ==
    /\ commission_rate = 999
    /\ Len(trades) = 2
    /\ trades[1].side = "buy"
    /\ trades[2].side = "sell"
    /\ cash > 0 /\ cash < initial_capital

\* C6: the trade log grows by exactly one record, the call's, on each
\* execute_trade that returns True and by none on one that returns False; no
\* step changes, removes or reorders the records already in it.
C6_TradeLogAppendOnly ==
    /\ [][TradeStep =>
            IF call'.ret
            THEN /\ Len(trades') = Len(trades) + 1
                 /\ trades'[Len(trades')].timestamp = call'.timestamp
                 /\ trades'[Len(trades')].symbol = call'.symbol
                 /\ trades'[Len(trades')].side = call'.side
                 /\ trades'[Len(trades')].price = call'.price
                 /\ trades'[Len(trades')].quantity = call'.quantity
            ELSE trades' = trades]_vars
    /\ [][IsPrefix(trades, trades')]_vars

\* C6 witness: two records in the log after three calls, the last one rejected.
C6_Witness ==
    /\ Len(trades) = 2
    /\ ncalls = 3
    /\ call.op = "execute_trade" /\ ~call.ret
    /\ trades[1] # trades[2]

\* ---------------------------------------------------------------- Strategy

\* The price column of the strategy's copy of the market data, for one row: the
\* row's price, or the mid price of its best bid and ask when the frame has no
\* price column.
mid_price(row) ==
    IF "price" \in DOMAIN row
    THEN row.price
    ELSE (row.bid_1 + row.ask_1) \div 2

\* What a strategy decides for one row: hold, or buy/sell a size.
Decisions ==
    {[signal |-> 0, size |-> 1]}
        \cup {[signal |-> s, size |-> q] : s \in {1, -1}, q \in Quantities}

\* The decisions of a strategy whose sizes include 0: position_size is a
\* parameter of the built-in strategies and the size column is the strategy's.
AnySizes == {0, 1}
AnyDecisions ==
    {[signal |-> 0, size |-> 1]}
        \cup {[signal |-> s, size |-> q] : s \in {1, -1}, q \in AnySizes}

\* ------------------------------------------------- MeanReversionStrategy

\* The default parameters.
entry_threshold == Float(2, 1)
exit_threshold == Float(1, 2)
position_size == 1

\* -x
Negative(x) == [x EXCEPT !.num = 0 - x.num]

\* The z_score column. The rolling mean and standard deviation are not computed
\* here: the column is drawn from values on every side of the thresholds and
\* the undefined value, and its first row, which has no full window behind it,
\* is undefined.
ZScores == {NaN} \cup {Float(z, 1) : z \in {-3, -1, 0, 1, 3}}
ZSeries(n) == {zs \in [1..n -> ZScores] : n > 0 => zs[1] = NaN}

\* Mutant: a long position that is closed is reversed into a short one.
next_row_StopAndReverse(current_position, z_score) ==
    IF z_score.kind = "nan"
    THEN [signal |-> 0, position |-> current_position]
    ELSE IF current_position = 0
    THEN IF Less(z_score, Negative(entry_threshold))
         THEN [signal |-> 1, position |-> 1]
         ELSE IF Less(entry_threshold, z_score)
         THEN [signal |-> -1, position |-> -1]
         ELSE [signal |-> 0, position |-> 0]
    ELSE IF current_position = 1
    THEN IF Less(Negative(exit_threshold), z_score)
         THEN [signal |-> -1, position |-> -1]
         ELSE [signal |-> 0, position |-> 1]
    ELSE IF Less(z_score, exit_threshold)
         THEN [signal |-> 1, position |-> 0]
         ELSE [signal |-> 0, position |-> -1]

\* The body of the loop of generate_signals: the signal and the position of row
\* i from the position of row i-1 and the z-score of row i.
next_row(current_position, z_score) ==
    IF z_score.kind = "nan"
    THEN [signal |-> 0, position |-> current_position]
    ELSE IF current_position = 0
    THEN IF Less(z_score, Negative(entry_threshold))
         THEN [signal |-> 1, position |-> 1]
         ELSE IF Less(entry_threshold, z_score)
         THEN [signal |-> -1, position |-> -1]
         ELSE [signal |-> 0, position |-> 0]
    ELSE IF current_position = 1
    THEN IF Less(Negative(exit_threshold), z_score)
         THEN [signal |-> -1, position |-> 0]
         ELSE [signal |-> 0, position |-> 1]
    ELSE IF Less(z_score, exit_threshold)
         THEN [signal |-> 1, position |-> 0]
         ELSE [signal |-> 0, position |-> -1]

\* for i in range(1, len(df)): the rows from the second on, in order, each
\* written into df before the next one reads it.
RECURSIVE mean_reversion_loop(_, _)
mean_reversion_loop(df, i) ==
    IF i > Len(df)
    THEN df
    ELSE LET row == next_row(df[i - 1].position, df[i].z_score)
         IN  mean_reversion_loop(
                 [df EXCEPT ![i] = [@ EXCEPT !.signal = row.signal,
                                             !.position = row.position]],
                 i + 1)

\* MeanReversionStrategy.generate_signals on data with the z-scores zs: df with
\* its signal, position, z_score and size columns.
mean_reversion_signals(zs) ==
    mean_reversion_loop(
        [i \in 1..Len(zs) |->
            [signal |-> 0, position |-> 0, z_score |-> zs[i],
             size |-> position_size]],
        2)

\* ---------------------------------------------- SimpleMovingAverageStrategy

\* The parameters short_window and long_window. The defaults are 20 and 50; the
\* windows here are short enough for both averages to be defined within
\* MaxBars rows.
Windows ==
    {[short_window |-> 1, long_window |-> 2],
     [short_window |-> 2, long_window |-> 3]}

\* prices[a] + ... + prices[b]
RECURSIVE SumOf(_, _, _)
SumOf(prices, a, b) ==
    IF a > b THEN 0 ELSE prices[a] + SumOf(prices, a + 1, b)

\* df['price'].rolling(window=window).mean() at row i: undefined until the
\* window is full.
rolling_mean(prices, window, i) ==
    IF i < window THEN NaN ELSE Divide(SumOf(prices, i - window + 1, i), window)

\* df['signal'] = 0, then 1 where short_ma > long_ma, then -1 where
\* short_ma < long_ma: a comparison with an undefined average is false.
above_or_below(short_ma, long_ma) ==
    IF Less(short_ma, long_ma) THEN -1
    ELSE IF Less(long_ma, short_ma) THEN 1
    ELSE 0

\* df['signal'].shift(1): the signal of the row before; undefined at the first.
shift(signal, i) ==
    IF i = 1 THEN [isna |-> TRUE, value |-> 0]
    ELSE [isna |-> FALSE, value |-> signal[i - 1]]

\* Mutant: the signal is emitted at every row, not on the crossover only.
crossover_AtEveryRow(signal, prev_signal) == signal

\* row['signal'] if row['signal'] != row['prev_signal'] else 0; nothing equals
\* an undefined prev_signal.
crossover(signal, prev_signal) ==
    IF prev_signal.isna \/ signal # prev_signal.value THEN signal ELSE 0

\* SimpleMovingAverageStrategy.generate_signals on the price column prices, with
\* the windows w: df with its short_ma, long_ma, signal and size columns.
moving_average_signals(prices, w) ==
    LET short_ma == [i \in 1..Len(prices) |-> rolling_mean(prices, w.short_window, i)]
        long_ma == [i \in 1..Len(prices) |-> rolling_mean(prices, w.long_window, i)]
        signal == [i \in 1..Len(prices) |-> above_or_below(short_ma[i], long_ma[i])]
    IN  [i \in 1..Len(prices) |->
            [short_ma |-> short_ma[i], long_ma |-> long_ma[i],
             signal |-> crossover(signal[i], shift(signal, i)),
             size |-> position_size]]

\* Strategy.generate_signals as the built-in strategies implement it: one signal
\* row per market-data row, on the same index, carrying the row's timestamp and
\* price, the strategy's signal and its size.
generate_signals(p, d) ==
    [i \in 1..Len(d) |->
        [timestamp |-> d[i].timestamp, signal |-> p[i].signal,
         price |-> mid_price(d[i]), size |-> p[i].size]]

\* ----------------------------------------------------------- BacktestEngine

\* A market-data row: the series modelled carries a timestamp and a price column.
Rows == [timestamp : Timestamps, price : Prices]

\* The market-data series a caller may hand to load_data.
Series == UNION {[1..n -> Rows] : n \in 0..MaxRows}

\* The columns of a series of Rows.
PricedColumns == {"timestamp", "price"}

\* A row of a series carrying a timestamp but neither price nor bid_1/ask_1.
PricelessRows == [timestamp : Timestamps]
PricelessSeries == UNION {[1..n -> PricelessRows] : n \in 0..MaxRows}
PricelessColumns == {"timestamp"}

\* A row of a series that has no timestamp column.
UntimedRows == [price : Prices]
UntimedSeries == UNION {[1..n -> UntimedRows] : n \in 0..MaxRows}
UntimedColumns == {"price"}

\* A row of a series with a timestamp, a best bid and a best ask and no price.
\* The quotes are chosen so that every mid price is a whole number.
Bids == {24000}
Asks == {26000, 52000}
QuoteRows == [timestamp : Timestamps, bid_1 : Bids, ask_1 : Asks]
QuoteSeries == UNION {[1..n -> QuoteRows] : n \in 0..MaxRows}
QuoteColumns == {"timestamp", "bid_1", "ask_1"}

\* The market data a built-in strategy is run on: one row per bar, in time
\* order, with a price.
BarPrices == {25000, 50000, 75000}
BarSeries ==
    UNION {[1..n -> BarPrices] : n \in 0..MaxBars}
Bars(prices) == [i \in 1..Len(prices) |-> [timestamp |-> i, price |-> prices[i]]]

\* 'price' in self.data.columns
HasPrice(cols) == "price" \in cols

\* 'bid_1' in self.data.columns and 'ask_1' in self.data.columns
HasQuotes(cols) == "bid_1" \in cols /\ "ask_1" \in cols

\* Mutant: the position is valued at the best bid.
ensure_price_AtBid(d, cols) ==
    IF ~HasPrice(cols) /\ HasQuotes(cols)
    THEN [i \in 1..Len(d) |-> d[i] @@ [price |-> d[i].bid_1]]
    ELSE d

\* run, "ensure we have price information": data without a price column and
\* with bid_1 and ask_1 gets the price column (bid_1 + ask_1) / 2; any other
\* data is left as it is.
ensure_price(d, cols) ==
    IF ~HasPrice(cols) /\ HasQuotes(cols)
    THEN [i \in 1..Len(d) |-> d[i] @@ [price |-> (d[i].bid_1 + d[i].ask_1) \div 2]]
    ELSE d

\* The columns of self.data after that step.
ensure_price_columns(cols) ==
    IF ~HasPrice(cols) /\ HasQuotes(cols) THEN cols \cup {"price"} ELSE cols

IsSortedByTimestamp(d) ==
    \A i, j \in 1..Len(d) : i < j => d[i].timestamp <= d[j].timestamp

\* data.sort_values('timestamp').reset_index(drop=True): the rows of d ordered
\* by timestamp; pandas' default sort kind (quicksort) does not fix the order
\* of rows with equal timestamps.
sort_values(d) ==
    {s \in [1..Len(d) -> {d[i] : i \in 1..Len(d)}] :
        /\ IsSortedByTimestamp(s)
        /\ \E f \in [1..Len(d) -> 1..Len(d)] :
              /\ \A i, j \in 1..Len(d) : i # j => f[i] # f[j]
              /\ \A i \in 1..Len(d) : s[i] = d[f[i]]}

\* The sorted series load_data may store, for each series handed to it.
Sorted == [d \in Series \cup PricelessSeries \cup QuoteSeries |-> sort_values(d)]

\* The same for any series: looked up where it is tabulated, computed otherwise.
SortedOf(d) == IF d \in DOMAIN Sorted THEN Sorted[d] ELSE sort_values(d)

\* BacktestEngine.__init__ with its strategy.
EngineInit ==
    /\ plan = NoPlan
    /\ is_initialized = FALSE
    /\ fills = <<>>
    /\ init_count = 0
    /\ gen_count = 0
    /\ loaded = FALSE
    /\ data = <<>>
    /\ columns = {}
    /\ api = NoApi
    /\ results = None
    /\ pc = "idle"
    /\ symbol = "BTC-PERPETUAL"
    /\ signals_df = <<>>
    /\ idx = 0
    /\ order = None
    /\ runs = 0

\* self.data = data.copy(): what is sorted is the copy, and the caller's frame
\* is after the call what it was before it.
CallerFrame(d, stored) == d

\* Mutant: the data is stored before the columns are looked at.
load_data_StoresFirst(d, cols) ==
    /\ data' \in (IF "timestamp" \in cols THEN SortedOf(d) ELSE {d})
    /\ columns' = cols
    /\ loaded' = TRUE
    /\ api' = LoadCall(d, cols, CallerFrame(d, data'),
                       IF "timestamp" \in cols THEN "none" ELSE "ValueError")

\* BacktestEngine.load_data(data): raise when there is no timestamp column,
\* else keep a copy of the data sorted by timestamp.
load_data(d, cols) ==
    IF "timestamp" \notin cols
    THEN /\ api' = LoadCall(d, cols, d, "ValueError")
         /\ UNCHANGED <<loaded, data, columns>>
    ELSE /\ data' \in SortedOf(d)
         /\ columns' = cols
         /\ loaded' = TRUE
         /\ api' = LoadCall(d, cols, CallerFrame(d, data'), "none")

\* load_data on a series with a timestamp and a price column. The model loads
\* data before the engine's first run.
LoadData ==
    /\ pc = "idle"
    /\ runs = 0
    /\ \E d \in Series : load_data(d, PricedColumns)
    /\ UNCHANGED <<ledger, caller, strategy, results, pc, symbol, signals_df,
                   idx, order, runs>>

\* load_data on a series with a timestamp column and no price of any kind.
LoadDataNoPrice ==
    /\ pc = "idle"
    /\ runs = 0
    /\ \E d \in PricelessSeries : load_data(d, PricelessColumns)
    /\ UNCHANGED <<ledger, caller, strategy, results, pc, symbol, signals_df,
                   idx, order, runs>>

\* load_data on a series with timestamp, bid_1 and ask_1 and no price column.
LoadDataBidAsk ==
    /\ pc = "idle"
    /\ runs = 0
    /\ \E d \in QuoteSeries : load_data(d, QuoteColumns)
    /\ UNCHANGED <<ledger, caller, strategy, results, pc, symbol, signals_df,
                   idx, order, runs>>

\* load_data on a series of bars.
LoadBars ==
    /\ pc = "idle"
    /\ runs = 0
    /\ \E prices \in BarSeries : load_data(Bars(prices), PricedColumns)
    /\ UNCHANGED <<ledger, caller, strategy, results, pc, symbol, signals_df,
                   idx, order, runs>>

\* load_data on a series without a timestamp column.
LoadDataNoTimestamp ==
    /\ pc = "idle"
    /\ runs = 0
    /\ \E d \in UntimedSeries : load_data(d, UntimedColumns)
    /\ UNCHANGED <<ledger, caller, strategy, results, pc, symbol, signals_df,
                   idx, order, runs>>

\* The symbols run is called with.
RunSymbols == {"BTC-PERPETUAL"}

\* if not self.strategy.is_initialized
NeedsInitializeAlways(flag) == TRUE
NeedsInitialize(flag) == ~flag

\* strategy.initialize() where the flag asks for it; initialize sets the flag.
LazyInitialize ==
    IF NeedsInitialize(is_initialized)
    THEN /\ is_initialized' = TRUE
         /\ init_count' = init_count + 1
    ELSE UNCHANGED <<is_initialized, init_count>>

\* Mutant: the strategy is initialized before the data is looked at.
RunNoDataInitializesFirst ==
    /\ pc \in {"idle", "done", "failed"}
    /\ ~loaded
    /\ LazyInitialize
    /\ api' = RunCall("ValueError")
    /\ UNCHANGED <<ledger, caller, plan, fills, gen_count, supplies_prices,
                   loaded, data, columns, results, pc, symbol, signals_df, idx,
                   order, runs>>

\* run with no data loaded: if self.data is None: raise ValueError.
RunNoData ==
    /\ pc \in {"idle", "done", "failed"}
    /\ ~loaded
    /\ api' = RunCall("ValueError")
    /\ UNCHANGED <<ledger, caller, strategy, loaded, data, columns, results, pc,
                   symbol, signals_df, idx, order, runs>>

\* What a strategy that prices its signals itself decides for one row.
OwnPrices == {50000}
OwnDecisions ==
    {[signal |-> r.signal, size |-> r.size, price |-> p] :
        r \in Decisions, p \in OwnPrices}

\* generate_signals of a strategy that takes no price from the market data.
generate_own_signals(p, d) ==
    [i \in 1..Len(d) |->
        [timestamp |-> d[i].timestamp, signal |-> p[i].signal,
         price |-> p[i].price, size |-> p[i].size]]

\* self.strategy.generate_signals(self.data), for the strategy of this engine.
Signals(p, d) ==
    IF supplies_prices THEN generate_own_signals(p, d) ELSE generate_signals(p, d)

\* run, up to the loop: the data check, the lazy initialize, generate_signals,
\* and the price column where the data has none but has quotes.
\* The strategy is a deterministic function of the series: what it decides on
\* the first run it decides again on the next.
RunStartOver(plans) ==
    /\ pc \in {"idle", "done", "failed"}
    /\ runs < MaxRuns
    /\ loaded
    /\ HasPrice(columns) \/ HasQuotes(columns) \/ supplies_prices
    /\ LazyInitialize
    /\ gen_count' = gen_count + 1
    /\ IF plan.decided
       THEN plan' = plan
       ELSE \E p \in plans : plan' = [decided |-> TRUE, rows |-> p]
    /\ signals_df' = Signals(plan'.rows, data)
    /\ data' = ensure_price(data, columns)
    /\ columns' = ensure_price_columns(columns)
    /\ symbol' \in RunSymbols
    /\ idx' = 1
    /\ order' = None
    /\ runs' = runs + 1
    /\ api' = RunCall("none")
    /\ pc' = IF Len(data) = 0 THEN "finish" ELSE "row"
    /\ UNCHANGED <<ledger, caller, fills, supplies_prices, loaded, results>>

\* run with a strategy whose sizes are positive.
RunStart ==
    /\ loaded
    /\ RunStartOver([1..Len(data) ->
                        IF supplies_prices THEN OwnDecisions ELSE Decisions])

\* run with a strategy that may also ask for the size 0.
RunStartAnySize ==
    /\ loaded
    /\ RunStartOver([1..Len(data) -> AnyDecisions])

\* run with a SimpleMovingAverageStrategy, over data of at least one row: what
\* df.apply(..., axis=1) returns for a frame without rows is not modelled.
RunStartMovingAverage ==
    /\ loaded
    /\ Len(data) > 0
    /\ RunStartOver({moving_average_signals([i \in 1..Len(data) |-> data[i].price], w) :
                        w \in Windows})

\* run with a MeanReversionStrategy of default parameters.
RunStartMeanReversion ==
    /\ loaded
    /\ RunStartOver({mean_reversion_signals(zs) : zs \in ZSeries(Len(data))})

\* run over data without a price, with a strategy that reads the data's price:
\* generate_signals raises ValueError after the lazy initialize.
RunSignalsRaise ==
    /\ pc \in {"idle", "done", "failed"}
    /\ runs < MaxRuns
    /\ loaded
    /\ ~HasPrice(columns)
    /\ ~HasQuotes(columns)
    /\ ~supplies_prices
    /\ LazyInitialize
    /\ gen_count' = gen_count + 1
    /\ runs' = runs + 1
    /\ api' = RunCall("ValueError")
    /\ pc' = "failed"
    /\ UNCHANGED <<ledger, caller, plan, fills, supplies_prices, loaded, data,
                   columns, results, symbol, signals_df, idx, order>>

\* The caller calls strategy.generate_signals itself, on a series of its own.
CallGenerateSignals ==
    /\ pc \in {"idle", "done", "failed"}
    /\ gen_count - runs < MaxDirect
    /\ LazyInitialize
    /\ gen_count' = gen_count + 1
    /\ UNCHANGED <<ledger, caller, plan, fills, supplies_prices, engine>>

\* The fill handed to strategy.on_order_filled after a buy.
BuyOrder(row, sym) ==
    [timestamp |-> row.timestamp, symbol |-> sym, side |-> "buy",
     price |-> row.price, quantity |-> row.size]

\* Mutant: the whole size is sold, whatever is held.
SellQuantityWholeSize(size, current_position) == size

\* quantity = min(size, current_position)
SellQuantity(size, current_position) ==
    IF size <= current_position THEN size ELSE current_position

\* Mutant: the fill reports the size asked for, not the quantity sold.
SellOrderOfSize(row, sym, quantity) ==
    [timestamp |-> row.timestamp, symbol |-> sym, side |-> "sell",
     price |-> row.price, quantity |-> row.size]

\* The fill handed to strategy.on_order_filled after a sell.
SellOrder(row, sym, quantity) ==
    [timestamp |-> row.timestamp, symbol |-> sym, side |-> "sell",
     price |-> row.price, quantity |-> quantity]

\* Mutant: a rejected trade ends the loop.
AfterTradeStopsOnReject(success) == IF success THEN "notify" ELSE "finish"

\* if success: the notification follows; otherwise the row's snapshot.
AfterTrade(success) == IF success THEN "notify" ELSE "equity"

\* A row with signal == 1: buy size.
RowBuy ==
    /\ pc = "row"
    /\ signals_df[idx].signal = 1
    /\ LET row == signals_df[idx]
       IN  /\ ExecuteTrade(row.timestamp, symbol, "buy", row.price, row.size)
           /\ order' = BuyOrder(row, symbol)
    /\ pc' = AfterTrade(call'.ret)
    /\ UNCHANGED <<strategy, loaded, data, columns, api, results, symbol, signals_df, idx, runs>>

\* A row with signal == -1 while current_position > 0: sell min(size, position).
RowSell ==
    /\ pc = "row"
    /\ signals_df[idx].signal = -1
    /\ get_position(positions, symbol) > 0
    /\ LET row == signals_df[idx]
           quantity == SellQuantity(row.size, get_position(positions, symbol))
       IN  /\ ExecuteTrade(row.timestamp, symbol, "sell", row.price, quantity)
           /\ order' = SellOrder(row, symbol, quantity)
    /\ pc' = AfterTrade(call'.ret)
    /\ UNCHANGED <<strategy, loaded, data, columns, api, results, symbol, signals_df, idx, runs>>

\* Mutant: without the current_position > 0 test, min(size, 0) = 0 is sold.
RowSellFlatSellsZero ==
    /\ pc = "row"
    /\ signals_df[idx].signal = -1
    /\ ~(get_position(positions, symbol) > 0)
    /\ LET row == signals_df[idx]
           quantity == SellQuantity(row.size, get_position(positions, symbol))
       IN  /\ ExecuteTrade(row.timestamp, symbol, "sell", row.price, quantity)
           /\ order' = SellOrder(row, symbol, quantity)
    /\ pc' = AfterTrade(call'.ret)
    /\ UNCHANGED <<strategy, loaded, data, columns, api, results, symbol, signals_df, idx, runs>>

\* A row with signal == -1 while current_position is not > 0: nothing is called.
RowSellFlat ==
    /\ pc = "row"
    /\ signals_df[idx].signal = -1
    /\ ~(get_position(positions, symbol) > 0)
    /\ pc' = "equity"
    /\ UNCHANGED <<ledger, caller, strategy, loaded, data, columns, api, results, symbol,
                   signals_df, idx, order, runs>>

\* Mutant: a row asks the strategy for its signals again.
RowHoldAsksAgain ==
    /\ pc = "row"
    /\ signals_df[idx].signal = 0
    /\ gen_count' = gen_count + 1
    /\ pc' = "equity"
    /\ UNCHANGED <<ledger, caller, plan, is_initialized, fills, init_count,
                   supplies_prices, loaded, data, columns, api, results, symbol,
                   signals_df, idx, order, runs>>

\* A row with signal == 0.
RowHold ==
    /\ pc = "row"
    /\ signals_df[idx].signal = 0
    /\ pc' = "equity"
    /\ UNCHANGED <<ledger, caller, strategy, loaded, data, columns, api, results, symbol,
                   signals_df, idx, order, runs>>

\* self.strategy.on_order_filled({...})
RowNotify ==
    /\ pc = "notify"
    /\ fills' = Append(fills, order)
    /\ pc' = "equity"
    /\ UNCHANGED <<ledger, caller, plan, is_initialized, init_count, gen_count,
                   supplies_prices, loaded, data, columns, api, results,
                   symbol, signals_df, idx, order, runs>>

\* if idx in self.data.index: record_equity(timestamp, {symbol: price}); then the
\* next row, or the end of the loop.
RowEquity ==
    /\ pc = "equity"
    /\ idx \in DOMAIN data => HasPrice(columns)
    /\ IF idx \in DOMAIN data
       THEN RecordEquity(data[idx].timestamp, [s \in {symbol} |-> data[idx].price])
       ELSE UNCHANGED ledger
    /\ idx' = idx + 1
    /\ pc' = IF idx = Len(signals_df) THEN "finish" ELSE "row"
    /\ UNCHANGED <<caller, strategy, loaded, data, columns, api, results, symbol, signals_df,
                   order, runs>>

\* self.data.loc[idx, 'price'] on data without a price column: KeyError, and
\* run ends there.
RowEquityKeyError ==
    /\ pc = "equity"
    /\ idx \in DOMAIN data
    /\ ~HasPrice(columns)
    /\ api' = RunCall("KeyError")
    /\ pc' = "failed"
    /\ UNCHANGED <<ledger, caller, strategy, loaded, data, columns, results,
                   symbol, signals_df, idx, order, runs>>

\* The entries of the metrics that come from the capital, the last equity
\* point and the trade log.
capital_metrics(c, t, capital) ==
    [total_return |-> Divide(c[Len(c)].equity - capital, capital),
     total_trades |-> Len(t),
     initial_capital |-> capital,
     final_equity |-> c[Len(c)].equity,
     profit |-> c[Len(c)].equity - capital]

\* The metrics entry of a run's results. Of calculate_all_metrics it holds the
\* entries above; the statistics of the curve (Sharpe ratio, drawdown,
\* volatility) are functions of the curve alone and are computed in SpecMetrics.
run_metrics(c, t, capital) ==
    IF Len(c) = 0 THEN EmptyMapping ELSE capital_metrics(c, t, capital)

\* run, after the loop: the metrics are computed, the results stored and
\* returned.
RunFinish ==
    /\ pc = "finish"
    /\ results' = [equity_curve |-> equity_curve, trades |-> trades,
                   metrics |-> run_metrics(equity_curve, trades, initial_capital),
                   portfolio_stats |->
                       get_stats(equity_curve, initial_capital, trades, cash,
                                 positions),
                   signals |-> signals_df]
    /\ pc' = "done"
    /\ UNCHANGED <<ledger, caller, strategy, loaded, data, columns, api, symbol,
                   signals_df, idx, order, runs>>

\* ------------------------------------------- SpecRun: an engine and its runs

InitRun ==
    /\ \E capital \in Capitals, rate \in Rates : PortfolioInit(capital, rate)
    /\ EngineInit
    /\ supplies_prices = FALSE

NextRun ==
    \/ LoadData
    \/ RunStart
    \/ RowBuy
    \/ RowSell
    \/ RowSellFlat
    \/ RowHold
    \/ RowNotify
    \/ RowEquity
    \/ RunFinish

SpecRun == InitRun /\ [][NextRun]_vars

\* The loop of run is sequential code: a step that can be taken is taken.
LoopStep ==
    RowBuy \/ RowSell \/ RowSellFlat \/ RowHold \/ RowNotify \/ RowEquity \/ RunFinish

SpecRunLive == SpecRun /\ WF_vars(LoopStep)

\* ------------------------- SpecQuotes: runs over best-bid and best-ask data

InitQuotes ==
    /\ PortfolioInit(DefaultCapital, DefaultRate)
    /\ EngineInit
    /\ supplies_prices = FALSE

NextQuotes ==
    \/ LoadDataBidAsk
    \/ RunStart
    \/ RowBuy
    \/ RowSell
    \/ RowSellFlat
    \/ RowHold
    \/ RowNotify
    \/ RowEquity
    \/ RunFinish

SpecQuotes == InitQuotes /\ [][NextQuotes]_vars

\* ------- SpecAnyInput: sides and quantities outside the stated preconditions

InitAnyInput ==
    /\ PortfolioInit(DefaultCapital, DefaultRate)
    /\ EngineInit
    /\ supplies_prices = FALSE

NextAnyInput ==
    \/ CallExecuteTradeAny
    \/ LoadData
    \/ RunStartAnySize
    \/ RowBuy
    \/ RowSell
    \/ RowSellFlat
    \/ RowHold
    \/ RowNotify
    \/ RowEquity
    \/ RunFinish

SpecAnyInput == InitAnyInput /\ [][NextAnyInput]_vars

\* ---------------- SpecMeanReversion: runs of a MeanReversionStrategy

InitMeanReversion ==
    /\ PortfolioInit(DefaultCapital, DefaultRate)
    /\ EngineInit
    /\ supplies_prices = FALSE

NextMeanReversion ==
    \/ LoadBars
    \/ RunStartMeanReversion
    \/ RowBuy
    \/ RowSell
    \/ RowSellFlat
    \/ RowHold
    \/ RowNotify
    \/ RowEquity
    \/ RunFinish

SpecMeanReversion == InitMeanReversion /\ [][NextMeanReversion]_vars

\* ------------ SpecMovingAverage: runs of a SimpleMovingAverageStrategy

InitMovingAverage ==
    /\ PortfolioInit(DefaultCapital, DefaultRate)
    /\ EngineInit
    /\ supplies_prices = FALSE

NextMovingAverage ==
    \/ LoadBars
    \/ RunStartMovingAverage
    \/ RowBuy
    \/ RowSell
    \/ RowSellFlat
    \/ RowHold
    \/ RowNotify
    \/ RowEquity
    \/ RunFinish

SpecMovingAverage == InitMovingAverage /\ [][NextMovingAverage]_vars

\* ------------------------------ SpecApi: any use of the engine's interface

InitApi ==
    /\ PortfolioInit(DefaultCapital, DefaultRate)
    /\ EngineInit
    /\ supplies_prices \in BOOLEAN

NextApi ==
    \/ LoadData
    \/ LoadDataNoPrice
    \/ LoadDataNoTimestamp
    \/ RunNoData
    \/ RunStart
    \/ RunSignalsRaise
    \/ CallGenerateSignals
    \/ RowBuy
    \/ RowSell
    \/ RowSellFlat
    \/ RowHold
    \/ RowNotify
    \/ RowEquity
    \/ RowEquityKeyError
    \/ RunFinish

SpecApi == InitApi /\ [][NextApi]_vars


\* ------------------------------------------------------ PerformanceMetrics

\* The equity values of the curves measured, in currency units.
EquityValues == {0, 90000, 95000, 100000, 110000}

\* The equity curves handed to the metrics: get_equity_curve() of a Portfolio
\* that holds no position at its snapshots.
Curves ==
    UNION {[1..n -> {[timestamp |-> t, equity |-> Mills(v), cash |-> Mills(v),
                      positions_value |-> 0] : t \in {1}, v \in EquityValues}]
             : n \in 0..MaxCurve}

\* equity_curve['equity'].expanding().max()
cumulative_max(c) ==
    [i \in 1..Len(c) |->
        CHOOSE m \in {c[k].equity : k \in 1..i} :
            \A k \in 1..i : c[k].equity <= m]

\* (equity_curve['equity'] - cumulative_max) / cumulative_max
drawdown(c) ==
    [i \in 1..Len(c) |->
        Divide(c[i].equity - cumulative_max(c)[i], cumulative_max(c)[i])]

\* The labels of the values min and idxmin look at: NaN is skipped.
NotNaN(f) == {i \in DOMAIN f : f[i].kind # "nan"}

\* What idxmin returns: a label of the series, or NaN.
NoLabel == [isna |-> TRUE, label |-> 0]
Label(i) == [isna |-> FALSE, label |-> i]

\* drawdown.idxmin(): the first label of the least value, NaN when there is
\* none (the case the code tests with pd.isna).
idxmin(f) ==
    IF NotNaN(f) = {} THEN NoLabel
    ELSE Label(CHOOSE i \in NotNaN(f) :
                  /\ \A k \in NotNaN(f) : ~Less(f[k], f[i])
                  /\ \A k \in NotNaN(f) : k < i => Less(f[i], f[k]))

\* drawdown.min(): NaN when every value is NaN.
SeriesMin(f) == IF NotNaN(f) = {} THEN NaN ELSE f[idxmin(f).label]

\* Mutant: the peak is looked for over the whole curve.
peak_idx_OfWholeCurve(c, trough) ==
    CHOOSE i \in 1..Len(c) :
        /\ \A k \in 1..Len(c) : c[k].equity <= c[i].equity
        /\ \A k \in 1..(i - 1) : c[k].equity < c[i].equity

\* equity_curve.loc[:max_drawdown_idx, 'equity'].idxmax(): the first label of
\* the greatest equity up to and including the trough.
peak_idx(c, trough) ==
    CHOOSE i \in 1..trough :
        /\ \A k \in 1..trough : c[k].equity <= c[i].equity
        /\ \A k \in 1..(i - 1) : c[k].equity < c[i].equity

\* PerformanceMetrics.calculate_max_drawdown
calculate_max_drawdown(c) ==
    IF Len(c) = 0
    THEN [max_drawdown |-> Float(0, 1), max_drawdown_duration |-> 0]
    ELSE LET max_drawdown_idx == idxmin(drawdown(c))
         IN  [max_drawdown |-> SeriesMin(drawdown(c)),
              max_drawdown_duration |->
                  IF max_drawdown_idx.isna THEN 0
                  ELSE max_drawdown_idx.label
                         - peak_idx(c, max_drawdown_idx.label)]

\* equity_curve['equity'].pct_change(): the first element has no prior value.
calculate_returns(c) ==
    [i \in 1..Len(c) |->
        IF i = 1 THEN NaN
        ELSE Divide(c[i].equity - c[i - 1].equity, c[i - 1].equity)]

\* a + b on finite floats.
Plus(a, b) == Float(a.num * b.den + b.num * a.den, a.den * b.den)

\* The sum of the values of f at the labels in s.
RECURSIVE SeriesSum(_, _)
SeriesSum(f, s) ==
    IF s = {} THEN Float(0, 1)
    ELSE LET i == CHOOSE x \in s : TRUE
         IN  Plus(f[i], SeriesSum(f, s \ {i}))

\* The signs of the infinities in f.
InfiniteSigns(f) == {f[i].num : i \in {k \in DOMAIN f : f[k].kind = "inf"}}

\* Series.mean(): NaN is skipped; NaN when nothing is left or when infinities
\* of both signs meet.
mean(f) ==
    IF NotNaN(f) = {} THEN NaN
    ELSE IF InfiniteSigns(f) # {}
         THEN IF Cardinality(InfiniteSigns(f)) = 1
              THEN Infinity(CHOOSE sign \in InfiniteSigns(f) : TRUE)
              ELSE NaN
         ELSE LET total == SeriesSum(f, NotNaN(f))
              IN  Float(total.num, total.den * Cardinality(NotNaN(f)))

\* A standard deviation above 0: its magnitude is not modelled.
Positive == [kind |-> "positive", num |-> 1, den |-> 1]

\* Series.std() (sample standard deviation, ddof = 1): NaN is skipped; NaN with
\* fewer than two values left or with an infinity among them, 0 when they are
\* all equal.
std(f) ==
    IF Cardinality(NotNaN(f)) < 2 \/ InfiniteSigns(f) # {} THEN NaN
    ELSE IF \A i, j \in NotNaN(f) : f[i] = f[j] THEN Float(0, 1)
         ELSE Positive

\* np.sqrt(periods_per_year) * excess_returns.mean() / returns.std(), with the
\* default risk_free_rate 0.0: NaN when either is, otherwise the mean scaled by
\* a positive factor (the factor is not modelled).
ScaledMean(m, deviation) ==
    IF m.kind = "nan" \/ deviation.kind = "nan" THEN NaN
    ELSE [kind |-> "scaled", num |-> m.num, den |-> m.den]

\* PerformanceMetrics.calculate_sharpe_ratio(returns)
calculate_sharpe_ratio(returns) ==
    IF Len(returns) = 0 \/ std(returns) = Float(0, 1)
    THEN Float(0, 1)
    ELSE ScaledMean(mean(returns), std(returns))

\* x * 100
Percent(x) == IF x.kind = "finite" THEN Float(x.num * 100, x.den) ELSE x

\* if len(returns) > 1: the volatility and avg_return entries.
HasSpread(returns) == Len(returns) > 1

\* Mutant: the number of calls made so far leaks into the result.
calculate_all_metrics_Remembering(c, t, capital) ==
    IF Len(c) = 0 THEN EmptyMapping
    ELSE [capital_metrics(c, t, capital) EXCEPT !.total_trades = Len(t) + ncalls]
            @@ [total_return_pct |-> Percent(Divide(c[Len(c)].equity - capital, capital)),
                sharpe_ratio |-> calculate_sharpe_ratio(calculate_returns(c)),
                max_drawdown |-> calculate_max_drawdown(c).max_drawdown,
                max_drawdown_pct |-> Percent(calculate_max_drawdown(c).max_drawdown),
                max_drawdown_duration |->
                    calculate_max_drawdown(c).max_drawdown_duration]

\* Mutant: a curve of one point is treated as an empty one.
calculate_all_metrics_EmptyForOnePoint(c, t, capital) ==
    IF Len(c) <= 1 THEN EmptyMapping
    ELSE capital_metrics(c, t, capital)
            @@ [total_return_pct |-> Percent(Divide(c[Len(c)].equity - capital, capital)),
                sharpe_ratio |-> calculate_sharpe_ratio(calculate_returns(c)),
                max_drawdown |-> calculate_max_drawdown(c).max_drawdown,
                max_drawdown_pct |-> Percent(calculate_max_drawdown(c).max_drawdown),
                max_drawdown_duration |->
                    calculate_max_drawdown(c).max_drawdown_duration]
            @@ [volatility |-> std(calculate_returns(c)),
                avg_return |-> mean(calculate_returns(c))]

\* PerformanceMetrics.calculate_all_metrics(equity_curve, trades_df, initial_capital)
calculate_all_metrics(c, t, capital) ==
    IF Len(c) = 0 THEN EmptyMapping
    ELSE capital_metrics(c, t, capital)
            @@ [total_return_pct |-> Percent(Divide(c[Len(c)].equity - capital, capital)),
                sharpe_ratio |-> calculate_sharpe_ratio(calculate_returns(c)),
                max_drawdown |-> calculate_max_drawdown(c).max_drawdown,
                max_drawdown_pct |-> Percent(calculate_max_drawdown(c).max_drawdown),
                max_drawdown_duration |->
                    calculate_max_drawdown(c).max_drawdown_duration]
            @@ (IF HasSpread(calculate_returns(c))
                THEN [volatility |-> std(calculate_returns(c)),
                      avg_return |-> mean(calculate_returns(c))]
                ELSE EmptyMapping)

\* ------------------------- SpecMetrics: the metrics of a given equity curve

\* The trade logs handed to the metrics: only their length is looked at.
TradeLogs ==
    UNION {[1..n -> {[timestamp |-> 1, symbol |-> "BTC-PERPETUAL", side |-> "buy",
                      price |-> 50000, quantity |-> 1, commission |-> 50000,
                      cash |-> 0]}] : n \in 0..2}

InitMetrics ==
    /\ \E capital \in Capitals : PortfolioInit(capital, DefaultRate)
    /\ NoEngine

\* The curve and the trade log of a finished simulation are handed over.
GetEquityCurve ==
    /\ pc = "idle"
    /\ equity_curve' \in Curves
    /\ trades' \in TradeLogs
    /\ pc' = "curve"
    /\ UNCHANGED <<initial_capital, commission_rate, cash, positions,
                   caller, strategy, loaded, data, columns, api, results,
                   symbol, signals_df, idx, order, runs>>

\* PerformanceMetrics.calculate_max_drawdown(equity_curve)
CalculateMaxDrawdown ==
    /\ pc = "curve"
    /\ results' = calculate_max_drawdown(equity_curve)
    /\ pc' = "measured"
    /\ UNCHANGED <<ledger, caller, strategy, loaded, data, columns, api,
                   symbol, signals_df, idx, order, runs>>

\* PerformanceMetrics.calculate_sharpe_ratio on the returns of the curve (on an
\* empty series of returns for an empty curve).
CalculateSharpeRatio ==
    /\ pc = "curve"
    /\ results' = [sharpe_ratio |->
                      calculate_sharpe_ratio(calculate_returns(equity_curve))]
    /\ pc' = "sharpe"
    /\ UNCHANGED <<ledger, caller, strategy, loaded, data, columns, api,
                   symbol, signals_df, idx, order, runs>>

\* PerformanceMetrics.calculate_all_metrics(equity_curve, trades_df,
\* initial_capital), called any number of times on the same arguments.
CalculateAllMetrics ==
    /\ pc \in {"curve", "metrics"}
    /\ ncalls < MaxCalls
    /\ results' = calculate_all_metrics(equity_curve, trades, initial_capital)
    /\ call' = [NoCall EXCEPT !.op = "calculate_all_metrics"]
    /\ ncalls' = ncalls + 1
    /\ pc' = "metrics"
    /\ UNCHANGED <<ledger, strategy, loaded, data, columns, api,
                   symbol, signals_df, idx, order, runs>>

NextMetrics ==
    \/ GetEquityCurve
    \/ CalculateMaxDrawdown
    \/ CalculateSharpeRatio
    \/ CalculateAllMetrics

SpecMetrics == InitMetrics /\ [][NextMetrics]_vars

\* ------------------------------------------------ claims on a run (SpecRun)

\* C7: after run over loaded market data of N rows, the equity curve contains
\* exactly N points, one per market-data row.
C7_EquityCurveLength == pc = "done" => Len(equity_curve) = Len(data)

\* A step of run that calls execute_trade for a sell signal.
SellStep == pc = "row" /\ signals_df[idx].signal = -1 /\ ncalls' = ncalls + 1

\* C8: on a sell signal with a positive position the engine passes
\* min(size, current_position) to execute_trade, so its sell is never rejected,
\* a sell with size > position leaves the position exactly 0, and the symbol's
\* position is >= 0 after every row.
C8_EngineSellsAtMostPosition ==
    /\ []((call.op = "execute_trade" /\ call.side = "sell") => call.ret)
    /\ [](\A s \in Symbols : get_position(positions, s) >= 0)
    /\ [][SellStep =>
            LET size == signals_df[idx].size
                held == get_position(positions, symbol)
            IN  /\ held > 0
                /\ call'.side = "sell"
                /\ call'.quantity = (IF size < held THEN size ELSE held)
                /\ call'.ret
                /\ size > held => get_position(positions', symbol) = 0
         ]_vars

\* C8 witness: a sell signal of size 2 met a position of 1; 1 was sold and the
\* position is 0.
C8_Witness ==
    /\ pc = "notify"
    /\ call.side = "sell" /\ call.ret
    /\ signals_df[idx].size = 2 /\ call.quantity = 1
    /\ get_position(positions, symbol) = 0

\* C9: a sell signal that arrives while the position is 0 changes nothing in
\* the ledger: cash and positions are unchanged, no trade is recorded and no
\* fill is notified; only the row's equity snapshot is recorded.
C9_SellWhileFlatIsNoOp ==
    /\ [][(pc = "row" /\ signals_df[idx].signal = -1
              /\ get_position(positions, symbol) = 0) =>
            /\ pc' = "equity"
            /\ UNCHANGED <<cash, positions, trades, fills, equity_curve, ncalls>>
         ]_vars
    /\ [][pc = "equity" =>
            /\ UNCHANGED <<cash, positions, trades, fills, ncalls>>
            /\ Len(equity_curve') = Len(equity_curve) + 1
            /\ IsPrefix(equity_curve, equity_curve')
         ]_vars

\* C9 witness: in the second run a row with a sell signal met no position: the
\* row is over, with its snapshot, and cash, positions, trades and fills are as
\* the first run left them.
C9_Witness ==
    /\ runs = 2
    /\ idx > 1
    /\ pc \in {"row", "finish"}
    /\ signals_df[idx - 1].signal = -1
    /\ Len(equity_curve) = Len(data) + idx - 1
    /\ trades = results.trades
    /\ Len(trades) = Len(fills)
    /\ get_position(positions, symbol) = 0
    /\ Len(trades) > 0
    /\ cash = trades[Len(trades)].cash

\* The fill a trade record stands for.
Fill(t) ==
    [timestamp |-> t.timestamp, symbol |-> t.symbol, side |-> t.side,
     price |-> t.price, quantity |-> t.quantity]

FillsOf(log) == [i \in 1..Len(log) |-> Fill(log[i])]

\* C10: on_order_filled is invoked exactly once for every successful
\* execute_trade, after the ledger update and before the next row, with the
\* timestamp, symbol, side, price and quantity of the appended trade record, and
\* never for a rejected trade: the fills notified are the trade log.
C10_FillsAreTheTradeLog ==
    IF pc = "notify"
    THEN /\ call.ret
         /\ Len(trades) = Len(fills) + 1
         /\ FillsOf(trades) = Append(fills, order)
    ELSE /\ Len(trades) = Len(fills)
         /\ FillsOf(trades) = fills

\* C10 witness: a finished run with fills on both sides, one of them a sell of
\* less than the size asked for, and a rejected trade that was not notified.
C10_Witness ==
    /\ pc = "done"
    /\ ncalls > Len(trades)
    /\ \E i, j \in 1..Len(fills) : fills[i].side = "buy" /\ fills[j].side = "sell"
    /\ \E i \in 1..Len(fills) :
          fills[i].side = "sell" /\ fills[i].quantity < plan.rows[2].size

\* run is inside its loop.
InLoop == pc \in {"row", "notify", "equity"}

\* C11: run processes every signal row exactly once, in order, and then
\* terminates. A rejected trade neither stops nor restarts the loop and is not
\* retried: each row makes at most one execute_trade call, and after a rejection
\* the row's equity snapshot and every later row are still processed.
C11_EveryRowOnceInOrder ==
    /\ [](InLoop => idx \in 1..Len(signals_df))
    /\ [](pc = "finish" => idx = Len(signals_df) + 1)
    /\ [](pc \in {"finish", "done"} => Len(equity_curve) = runs * Len(data))
    /\ [](InLoop => Len(equity_curve) = (runs - 1) * Len(data) + idx - 1)
    /\ [][InLoop =>
            /\ idx' = IF pc = "equity" THEN idx + 1 ELSE idx
            /\ pc' = "finish" <=> (pc = "equity" /\ idx = Len(signals_df))
            /\ pc' = "row" => pc = "equity"]_vars
    /\ [][ncalls' # ncalls =>
            /\ pc = "row"
            /\ ncalls' = ncalls + 1
            /\ pc' = IF call'.ret THEN "notify" ELSE "equity"]_vars
    /\ [][pc = "equity" =>
            /\ Len(equity_curve') = Len(equity_curve) + 1
            /\ equity_curve'[Len(equity_curve')].timestamp = data[idx].timestamp]_vars
    /\ (runs = 1 /\ pc = "row" /\ idx = 1) ~> (runs = 1 /\ pc = "done")

\* C11 witness: a run over two rows has ended; the first row's buy was rejected,
\* the second row's was executed, and both rows have their snapshot.
C11_Witness ==
    /\ pc = "done"
    /\ runs = 1
    /\ Len(data) = 2
    /\ ncalls = 2
    /\ Len(trades) = 1
    /\ signals_df[1].signal = 1
    /\ trades[1].price # signals_df[1].price
    /\ trades[1].price = signals_df[2].price
    /\ Len(equity_curve) = 2

\* C12: the equity point recorded for row i has equity = cash + position *
\* price_i, its cash field is the ledger's cash at that moment and its
\* positions_value is equity - cash; it is taken after row i's trade, if any.
C12_EquityPointOfRow ==
    /\ [][pc = "equity" =>
            LET point == equity_curve'[Len(equity_curve')]
            IN  /\ Len(equity_curve') = Len(equity_curve) + 1
                /\ point.timestamp = data[idx].timestamp
                /\ point.cash = cash
                /\ point.equity =
                      cash + get_position(positions, symbol) * Mills(data[idx].price)
                /\ point.positions_value = point.equity - point.cash
                /\ UNCHANGED <<cash, positions, trades>>]_vars
    /\ [][ncalls' # ncalls =>
            /\ pc = "row"
            /\ equity_curve' = equity_curve
            /\ Len(equity_curve) = (runs - 1) * Len(data) + idx - 1]_vars

\* C12 witness: the row just snapshotted bought, and its point shows the cash
\* the buy left and the position at the row's price.
C12_Witness ==
    /\ pc \in {"row", "finish"}
    /\ Len(equity_curve) > 0
    /\ Len(trades) > 0
    /\ LET point == equity_curve[Len(equity_curve)]
           trade == trades[Len(trades)]
       IN  /\ trade.timestamp = point.timestamp
           /\ trade.side = "buy"
           /\ point.cash = cash
           /\ point.cash < initial_capital
           /\ point.positions_value = trade.quantity * Mills(trade.price)
           /\ point.equity < initial_capital

\* C13: the equity curve produced by run is ordered by non-decreasing timestamp
\* (repeated timestamps allowed), and a point once appended is never modified or
\* removed by a later step.
C13_EquityCurveOrdered ==
    /\ [](IsSortedByTimestamp(equity_curve))
    /\ [][IsPrefix(equity_curve, equity_curve')]_vars

\* ------------------------------------ claims on the engine's interface (SpecApi)

\* Everything of the engine, its strategy and its ledger but the record of the
\* last call.
allButApi ==
    <<ledger, caller, strategy, loaded, data, columns, results, pc, symbol,
      signals_df, idx, order, runs>>

\* A step that is a call of run.
RunCallStep == api' # api /\ api'.op = "run"

\* A step that is a call of load_data.
LoadCallStep ==
    \/ api' # api /\ api'.op = "load_data"
    \/ <<loaded, data, columns>>' # <<loaded, data, columns>>

\* C14: run before any successful load_data fails at once with an error: the
\* strategy is not initialized, no signals are generated, and the ledger (cash,
\* positions, trades, equity curve) and the stored results stay as they were.
C14_RunWithoutDataFails ==
    /\ [][RunCallStep /\ ~loaded =>
            /\ api'.error = "ValueError"
            /\ UNCHANGED <<is_initialized, init_count, gen_count, plan, fills>>
            /\ UNCHANGED <<ledger, results, signals_df, pc, runs>>
            /\ UNCHANGED allButApi]_vars
    /\ [](~loaded =>
            /\ runs = 0
            /\ pc = "idle"
            /\ results = None
            /\ trades = <<>> /\ equity_curve = <<>> /\ cash = initial_capital)

\* C14 witness: run has raised on an engine without data, whose strategy is
\* still uninitialized.
C14_Witness ==
    /\ ~loaded
    /\ api.op = "run"
    /\ api.error = "ValueError"
    /\ ~is_initialized
    /\ init_count = 0
    /\ gen_count = 0

\* C15: when the loaded data has neither a price column nor best-bid and
\* best-ask columns, run fails before any simulation work: no execute_trade, no
\* fill notification and no equity snapshot happens, whatever the strategy.
C15_NoWorkWithoutPrice ==
    (loaded /\ ~HasPrice(columns)) =>
        /\ ncalls = 0
        /\ trades = <<>>
        /\ fills = <<>>
        /\ equity_curve = <<>>

\* C16: load_data on data without a timestamp column raises and leaves the
\* engine as it was (the data loaded before, or none, is retained and the ledger
\* untouched); on success it stores a sorted copy, and the caller's series is
\* after the call what it was before it.
C16_LoadDataAllOrNothing ==
    /\ [][LoadCallStep =>
            /\ api'.op = "load_data"
            /\ api'.arg = api'.given
            /\ UNCHANGED <<ledger, caller, strategy, results, pc, runs>>
            /\ IF "timestamp" \notin api'.cols
               THEN /\ api'.error = "ValueError"
                    /\ UNCHANGED allButApi
               ELSE /\ api'.error = "none"
                    /\ loaded'
                    /\ columns' = api'.cols
                    /\ IsSortedByTimestamp(data')
                    /\ Len(data') = Len(api'.given)
                    /\ \A r \in {api'.given[i] : i \in 1..Len(api'.given)} :
                          Cardinality({i \in 1..Len(data') : data'[i] = r})
                            = Cardinality({i \in 1..Len(api'.given) : api'.given[i] = r})]_vars

\* C16 witness: a load_data without timestamp has raised on an engine that holds
\* the two rows loaded before.
C16_Witness ==
    /\ loaded
    /\ Len(data) = 2
    /\ api.op = "load_data"
    /\ api.error = "ValueError"
    /\ Len(api.given) > 0
    /\ "timestamp" \notin api.cols

\* C17: initialization is lazy and happens once. run calls strategy.initialize
\* exactly when the ready flag is unset; over any number of run and
\* generate_signals calls initialize is invoked once, before the first
\* generate_signals work.
C17_InitializeOnce ==
    /\ [](init_count <= 1)
    /\ [](is_initialized <=> init_count = 1)
    /\ []((gen_count > 0 \/ runs > 0) => init_count = 1)
    /\ [][runs' # runs =>
            (init_count' = init_count + 1 <=> ~is_initialized)]_vars
    /\ [][gen_count' # gen_count =>
            /\ is_initialized'
            /\ init_count' = IF is_initialized THEN init_count ELSE 1]_vars

\* C17 witness: two runs and a generate_signals call of the caller's own, one
\* initialize.
C17_Witness ==
    /\ runs = 2
    /\ pc = "done"
    /\ gen_count = 3
    /\ init_count = 1
    /\ is_initialized

\* ------------------------------------------ more claims on a run (SpecRun)

\* C18: in each run generate_signals is invoked exactly once, over the whole
\* series, and before the first execute_trade, fill notification or equity
\* snapshot of the run; the loop never asks the strategy again.
C18_SignalsOnceUpFront ==
    /\ [](gen_count = runs)
    /\ [][gen_count' # gen_count =>
            /\ gen_count' = gen_count + 1
            /\ runs' = runs + 1
            /\ pc \notin {"row", "notify", "equity", "finish"}
            /\ Len(signals_df') = Len(data)
            /\ \A i \in 1..Len(data) : signals_df'[i].timestamp = data[i].timestamp
            /\ UNCHANGED <<ledger, caller, fills>>]_vars
    /\ [][InLoop => UNCHANGED <<gen_count, signals_df>>]_vars
    /\ [][(ncalls' # ncalls \/ fills' # fills \/ equity_curve' # equity_curve) =>
            InLoop /\ gen_count = runs /\ UNCHANGED gen_count]_vars

\* C18 witness: a second run has ended, both runs traded, and generate_signals
\* has been invoked twice.
C18_Witness ==
    /\ pc = "done"
    /\ runs = 2
    /\ gen_count = 2
    /\ Len(data) = 2
    /\ Len(trades) >= 2
    /\ Len(fills) >= 2
    /\ Len(equity_curve) = 4

\* s is d with its rows ordered by timestamp, rows of equal timestamp in the
\* order they have in d.
IsStableSortOf(s, d) ==
    /\ Len(s) = Len(d)
    /\ IsSortedByTimestamp(s)
    /\ \E f \in [1..Len(d) -> 1..Len(d)] :
          /\ \A i, j \in 1..Len(d) : i # j => f[i] # f[j]
          /\ \A i \in 1..Len(d) : s[i] = d[f[i]]
          /\ \A i, j \in 1..Len(d) :
                (i < j /\ s[i].timestamp = s[j].timestamp) => f[i] < f[j]

\* C19: load_data stores the rows sorted ascending by timestamp, rows with
\* equal timestamps in their original relative order.
C19_LoadDataSortIsStable ==
    (api.op = "load_data" /\ api.error = "none") => IsStableSortOf(data, api.given)

\* ------------------------------------------ claims on the metrics (SpecMetrics)

IsNonDecreasing(c) ==
    \A i, j \in 1..Len(c) : i < j => c[i].equity <= c[j].equity

\* -1 <= x <= 0
InDrawdownRange(x) ==
    /\ x.kind = "finite"
    /\ ~Less(x, Float(-1, 1))
    /\ ~Less(Float(0, 1), x)

\* C20: for every non-empty equity curve calculate_max_drawdown returns a
\* max_drawdown in [-1, 0], and 0 when the equity values are non-decreasing; for
\* an empty curve it returns max_drawdown 0 and duration 0.
C20_MaxDrawdownBounds ==
    pc = "measured" =>
        IF Len(equity_curve) = 0
        THEN /\ results.max_drawdown = Float(0, 1)
             /\ results.max_drawdown_duration = 0
        ELSE /\ InDrawdownRange(results.max_drawdown)
             /\ IsNonDecreasing(equity_curve) => results.max_drawdown = Float(0, 1)

\* A curve of the given equity values (currency units).
CurveOf(values) ==
    [i \in 1..Len(values) |->
        [timestamp |-> 1, equity |-> Mills(values[i]), cash |-> Mills(values[i]),
         positions_value |-> 0]]

\* t is the trough of c: the first point of least drawdown.
IsTrough(c, t) ==
    /\ t \in NotNaN(drawdown(c))
    /\ \A k \in NotNaN(drawdown(c)) :
          /\ ~Less(drawdown(c)[k], drawdown(c)[t])
          /\ k < t => Less(drawdown(c)[t], drawdown(c)[k])

\* p is a point at or before t that holds the greatest equity seen up to t.
IsPeakBefore(c, p, t) ==
    /\ p \in 1..t
    /\ \A k \in 1..t : c[k].equity <= c[p].equity

\* C21: max_drawdown_duration is (index of the trough, the point of minimum
\* drawdown) - (index of the maximum equity value at or before the trough); it
\* is never negative, and the curve [100000, 90000, 95000, 110000] gives
\* max_drawdown -0.10, trough index 1, peak index 0 and duration 1 (indices
\* counted from 0; the model counts from 1).
C21_DrawdownDuration ==
    pc = "measured" =>
        /\ results.max_drawdown_duration >= 0
        /\ \A t \in 1..Len(equity_curve) :
              IsTrough(equity_curve, t) =>
                  \E p \in 1..t :
                      /\ IsPeakBefore(equity_curve, p, t)
                      /\ results.max_drawdown_duration = t - p
        /\ equity_curve = CurveOf(<<100000, 90000, 95000, 110000>>) =>
              /\ results.max_drawdown = Float(-10, 100)
              /\ IsTrough(equity_curve, 1 + 1)
              /\ IsPeakBefore(equity_curve, 0 + 1, 1 + 1)
              /\ results.max_drawdown_duration = 1

\* C21 witness: the curve of the scenario has been measured.
C21_Witness ==
    /\ pc = "measured"
    /\ equity_curve = CurveOf(<<100000, 90000, 95000, 110000>>)
    /\ results.max_drawdown_duration = 1

IsConstant(c) == \A i, j \in 1..Len(c) : c[i].equity = c[j].equity

\* C22: for every constant equity curve of length >= 1, and for every series
\* of returns that is empty or has zero standard deviation, the Sharpe ratio
\* the metrics report is the sentinel 0.0, never NaN.
C22_SharpeOfConstantCurve ==
    /\ (pc = "sharpe" /\ IsConstant(equity_curve)) =>
            results.sharpe_ratio = Float(0, 1)
    /\ (pc = "sharpe" /\ std(calculate_returns(equity_curve)) = Float(0, 1)) =>
            results.sharpe_ratio = Float(0, 1)
    /\ (pc = "metrics" /\ Len(equity_curve) >= 1 /\ IsConstant(equity_curve)) =>
            results.sharpe_ratio = Float(0, 1)

\* C23: calculate_all_metrics returns an empty mapping exactly when the equity
\* curve is empty; for a non-empty curve it returns total return, Sharpe ratio,
\* max drawdown and its duration, profit, the trade count (the length of the
\* trade log) and the initial and final capital (the last equity point).
C23_AllMetricsEntries ==
    pc = "metrics" =>
        /\ DOMAIN results = {} <=> Len(equity_curve) = 0
        /\ Len(equity_curve) > 0 =>
              /\ {"total_return", "sharpe_ratio", "max_drawdown",
                  "max_drawdown_duration", "profit", "total_trades",
                  "initial_capital", "final_equity"} \subseteq DOMAIN results
              /\ results.total_trades = Len(trades)
              /\ results.initial_capital = initial_capital
              /\ results.final_equity = equity_curve[Len(equity_curve)].equity

\* C23 witness: the metrics of a one-point curve and a log of two trades.
C23_Witness ==
    /\ pc = "metrics"
    /\ Len(equity_curve) = 1
    /\ Len(trades) = 2
    /\ results.total_trades = 2
    /\ results.final_equity # results.initial_capital

\* The returns that are defined: the first element of the series, and a change
\* from an equity of 0, are not.
DefinedReturns(c) == NotNaN(calculate_returns(c))

\* C24: the volatility and avg_return entries are present only when more than
\* one return value exists, that is when the curve yields at least two defined
\* period-over-period returns.
C24_SpreadNeedsTwoReturns ==
    pc = "metrics" =>
        /\ "volatility" \in DOMAIN results =>
              Cardinality(DefinedReturns(equity_curve)) >= 2
        /\ "avg_return" \in DOMAIN results =>
              Cardinality(DefinedReturns(equity_curve)) >= 2

ValueHeld(s, prices) ==
    IF s \in DOMAIN positions /\ s \in DOMAIN prices
    THEN positions[s] * Mills(prices[s])
    ELSE 0

\* C26: get_portfolio_value(current_prices) returns cash plus the sum over the
\* held symbols of position * price; a held symbol absent from current_prices
\* adds 0 and a priced symbol that is not held adds nothing. get_position
\* returns 0 for a symbol never traded.
C26_PortfolioValue ==
    /\ call.op = "get_portfolio_value" =>
          results.value = cash + ValueHeld("BTC-PERPETUAL", results.arg)
                               + ValueHeld("ETH-PERPETUAL", results.arg)
    /\ call.op = "get_position" =>
          /\ (\A i \in 1..Len(trades) : trades[i].symbol # results.arg) =>
                results.value = 0
          /\ results.arg \in DOMAIN positions => results.value = positions[results.arg]

\* C26 witness: the value of a portfolio that holds BTC, asked with a price for
\* ETH only, is its cash.
C26_Witness ==
    /\ call.op = "get_portfolio_value"
    /\ get_position(positions, "BTC-PERPETUAL") > 0
    /\ get_position(positions, "ETH-PERPETUAL") = 0
    /\ DOMAIN results.arg = {"ETH-PERPETUAL"}
    /\ results.value = cash
    /\ cash < initial_capital

\* A step that is a call of record_equity.
RecordEquityStep == call'.op = "record_equity" /\ ncalls' = ncalls + 1

\* C27: each record_equity call appends exactly one point to the end of the
\* curve, also when the point before it has the same timestamp: two calls with
\* the same timestamp and prices append two equal points; no point is replaced
\* or merged.
C27_RecordEquityAppends ==
    [][RecordEquityStep =>
          /\ Len(equity_curve') = Len(equity_curve) + 1
          /\ IsPrefix(equity_curve, equity_curve')
          /\ equity_curve'[Len(equity_curve')].timestamp = call'.timestamp
          /\ (/\ call.op = "record_equity"
              /\ call.timestamp = call'.timestamp
              /\ results.arg = results'.arg) =>
                equity_curve'[Len(equity_curve')] = equity_curve[Len(equity_curve)]]_vars

\* C27 witness: two equal points, from two calls with the same timestamp and
\* prices.
C27_Witness ==
    /\ call.op = "record_equity"
    /\ Len(equity_curve) = 2
    /\ equity_curve[1] = equity_curve[2]

\* The operations of the ledger that only read, and the caller's write into a
\* mapping that get_stats returned.
ReadOps ==
    {"get_position", "get_portfolio_value", "get_equity_curve", "get_trades_df",
     "get_stats", "mutate"}

\* C28: cash, positions and the trade log change only inside execute_trade.
\* record_equity changes only the equity curve; get_position,
\* get_portfolio_value, get_equity_curve, get_trades_df and get_stats change
\* nothing; and writing into the final_positions mapping that get_stats
\* returned does not change the ledger's positions.
C28_OnlyExecuteTradeMutates ==
    /\ [][<<cash, positions, trades>>' # <<cash, positions, trades>> =>
            call'.op = "execute_trade" /\ ncalls' = ncalls + 1]_vars
    /\ [][RecordEquityStep =>
            UNCHANGED <<initial_capital, commission_rate, cash, positions, trades>>]_vars
    /\ [][call'.op \in ReadOps => UNCHANGED ledger]_vars

\* C28 witness: the caller has written into final_positions, which now differs
\* from the positions of the ledger.
C28_Witness ==
    /\ call.op = "mutate"
    /\ Len(trades) = 1
    /\ results.value.final_positions.value # positions
    /\ results.value.final_cash = cash

\* --------------------------------------- claims on a run's results (SpecRun)

\* C29: for a non-empty equity curve the reported total_return is
\* (final_equity - initial_capital) / initial_capital and profit is
\* final_equity - initial_capital, final_equity being the last equity point;
\* after a run the total_return, final equity and trade count of the metrics
\* agree with those of portfolio_stats.
C29_TotalReturnAndStats ==
    (pc = "done" /\ Len(equity_curve) > 0) =>
        LET metrics == results.metrics
            stats == results.portfolio_stats
            final_equity == equity_curve[Len(equity_curve)].equity
        IN  /\ metrics.final_equity = final_equity
            /\ metrics.total_return =
                  Divide(final_equity - initial_capital, initial_capital)
            /\ metrics.profit = final_equity - initial_capital
            /\ metrics.total_trades = Len(trades)
            /\ stats.total_return = metrics.total_return
            /\ stats.final_equity = metrics.final_equity
            /\ stats.total_trades = metrics.total_trades

\* C29 witness: a run that bought and still holds its position has ended with
\* a loss, the commission.
C29_Witness ==
    /\ pc = "done"
    /\ Len(trades) = 1
    /\ get_position(positions, symbol) > 0
    /\ results.metrics.profit < 0
    /\ Less(results.metrics.total_return, Float(0, 1))
    /\ results.portfolio_stats.final_cash < results.metrics.final_equity

\* -------------------------------------------- claims on quotes (SpecQuotes)

\* (bid_1 + ask_1) / 2 of a row of quotes, when it is the number m.
IsMidpoint(m, row) == 2 * m = row.bid_1 + row.ask_1

\* C30: over data without a price column and with bid_1 and ask_1, the price
\* at which run values the position at row i is (bid_i + ask_i) / 2, and it is
\* the price at which the signal of row i is executed.
C30_MidpointValuesAndExecutes ==
    [][/\ (RowEquity /\ idx \in DOMAIN data) =>
             LET point == equity_curve'[Len(equity_curve')]
                 held == get_position(positions, symbol)
             IN  /\ IsMidpoint(data[idx].price, data[idx])
                 /\ point.positions_value = Mills(held * data[idx].price)
                 /\ signals_df[idx].price = data[idx].price
       /\ (RowBuy \/ RowSell) =>
             /\ IsMidpoint(order'.price, data[idx])
             /\ call'.ret => trades'[Len(trades')].price = data[idx].price
      ]_vars

\* C30 witness: a run over quotes has bought at the mid price 38000 of the
\* quotes 24000/52000 and valued the position it holds at that price.
C30_Witness ==
    /\ HasQuotes(columns)
    /\ pc = "done"
    /\ Len(trades) = 1
    /\ trades[1].price = 38000
    /\ data[1].bid_1 = 24000 /\ data[1].ask_1 = 52000
    /\ equity_curve[1].positions_value = Mills(trades[1].quantity * 38000)

\* ------------------------------------------ claims on the trade log (Spec)

\* The cash before the k-th record of the log: the initial capital, or the cash
\* field of the record before it.
CashBefore(k) == IF k = 1 THEN initial_capital ELSE trades[k - 1].cash

\* C31: every record appended by execute_trade carries commission = price *
\* quantity * commission_rate and the ledger's cash right after that trade, so
\* along the log cash_k = cash_(k-1) - (value + commission) for a buy and
\* cash_(k-1) + (value - commission) for a sell, starting from initial_capital.
C31_TradeRecordCash ==
    /\ [][(TradeStep /\ call'.ret) =>
             LET trade == trades'[Len(trades')]
             IN  /\ trade.commission = call'.price * call'.quantity * commission_rate
                 /\ trade.cash = cash']_vars
    /\ [](\A k \in 1..Len(trades) :
             LET trade == trades[k]
                 value == 1000 * trade.price * trade.quantity
             IN  /\ trade.commission = trade.price * trade.quantity * commission_rate
                 /\ trade.side = "buy" =>
                        trade.cash = CashBefore(k) - (value + trade.commission)
                 /\ trade.side = "sell" =>
                        trade.cash = CashBefore(k) + (value - trade.commission))

\* C31 witness: a log of a buy and a sell with a commission charged on both, the
\* second record carrying the cash at hand.
C31_Witness ==
    /\ Len(trades) = 2
    /\ trades[1].side = "buy" /\ trades[2].side = "sell"
    /\ trades[1].commission > 0 /\ trades[2].commission > 0
    /\ trades[2].cash = cash
    /\ trades[2].cash # trades[1].cash
    /\ call.op = "execute_trade" /\ call.ret

\* ------------------- claims on unchecked sides and quantities (SpecAnyInput)

\* C32: a trade of quantity 0 is a no-op: the trade log never holds a record
\* with quantity 0 and no fill with quantity 0 is ever notified, whether the 0
\* comes from a signal's size or from a direct execute_trade call.
C32_NoZeroQuantityTrade ==
    /\ \A k \in 1..Len(trades) : trades[k].quantity # 0
    /\ \A k \in 1..Len(fills) : fills[k].quantity # 0

\* C35: execute_trade with a side other than buy or sell reports failure and
\* leaves cash, positions and the trade log unchanged: every record of the
\* trade log has side buy or sell.
C35_UnknownSideIsRejected ==
    /\ [][(TradeStep /\ call'.side \notin {"buy", "sell"}) =>
             /\ ~call'.ret
             /\ UNCHANGED <<cash, positions, trades>>]_vars
    /\ [](\A k \in 1..Len(trades) : trades[k].side \in {"buy", "sell"})

\* ------------------------------------------- claims on repeated runs (SpecRun)

\* C33: a run is a replay from the initial capital: a second run on the same
\* engine over the same data returns the equity curve (of one point per row),
\* the trade log and the metrics the first run returned.
C33_RunIsReplay ==
    [][(pc = "finish" /\ runs > 1) =>
          /\ results'.equity_curve = results.equity_curve
          /\ Len(results'.equity_curve) = Len(data)
          /\ results'.trades = results.trades
          /\ results'.metrics = results.metrics]_vars

\* ------------------------------ claims on the value of the portfolio (Spec)

\* get_portfolio_value({sym: price}) of a ledger.
ValueAt(c, pos, sym, price) == get_portfolio_value(c, pos, [s \in {sym} |-> price])

\* C34: valued at the trade's own price, a successful buy or sell of q at p
\* lowers the portfolio value by exactly its commission p*q*commission_rate; a
\* buy of q at p followed by a sell of q at p takes the position back and
\* leaves the cash lower by twice that commission.
C34_TradeCostsItsCommission ==
    /\ [][(TradeStep /\ call'.ret) =>
             ValueAt(cash', positions', call'.symbol, call'.price)
                 = ValueAt(cash, positions, call'.symbol, call'.price)
                     - call'.price * call'.quantity * commission_rate]_vars
    /\ [][(/\ TradeStep /\ call'.ret /\ call'.side = "sell"
           /\ call.op = "execute_trade" /\ call.ret /\ call.side = "buy"
           /\ call.symbol = call'.symbol /\ call.price = call'.price
           /\ call.quantity = call'.quantity) =>
             /\ cash' = CashBefore(Len(trades))
                           - 2 * call'.price * call'.quantity * commission_rate
             /\ get_position(positions', call'.symbol)
                   = get_position(positions, call'.symbol) - call.quantity]_vars

\* C34 witness: a buy of 2 at 50000 followed by a sell of 2 at 50000, at the
\* rate 0.001: the position is 0 again and the cash is lower by 2 * 100.
C34_Witness ==
    /\ commission_rate = 1
    /\ Len(trades) = 2
    /\ trades[1].side = "buy" /\ trades[2].side = "sell"
    /\ trades[1].symbol = trades[2].symbol
    /\ trades[1].price = 50000 /\ trades[2].price = 50000
    /\ trades[1].quantity = 2 /\ trades[2].quantity = 2
    /\ get_position(positions, trades[1].symbol) = 0
    /\ cash = initial_capital - Mills(200)
    /\ call.op = "execute_trade" /\ call.ret /\ call.side = "sell"

\* ------------------- claims on MeanReversionStrategy (SpecMeanReversion)

\* C36: generate_signals of MeanReversionStrategy is a fold over the rows with a
\* carried position in {-1, 0, 1}: from the second row on the signal of a row
\* is its position minus the position of the row before, so a signal is
\* emitted exactly when the position changes; the position never moves
\* directly between 1 and -1; a row with an undefined z-score has signal 0 and
\* keeps the position.
C36_SignalIsPositionChange ==
    plan.decided =>
        LET df == plan.rows
        IN  /\ \A i \in 1..Len(df) : df[i].position \in {-1, 0, 1}
            /\ \A i \in 2..Len(df) :
                  /\ df[i].signal = df[i].position - df[i - 1].position
                  /\ df[i].signal # 0 <=> df[i].position # df[i - 1].position
                  /\ {df[i].position, df[i - 1].position} # {-1, 1}
                  /\ df[i].z_score = NaN =>
                        df[i].signal = 0 /\ df[i].position = df[i - 1].position

\* C36 witness: the strategy went long and kept the position over a row with
\* an undefined z-score, and the run over its signals has ended.
C36_Witness ==
    /\ plan.decided
    /\ pc = "done"
    /\ Len(plan.rows) = 3
    /\ plan.rows[2].signal = 1 /\ plan.rows[2].position = 1
    /\ plan.rows[3].z_score = NaN
    /\ plan.rows[3].signal = 0 /\ plan.rows[3].position = 1

\* C37: when run replays the signals of a MeanReversionStrategy and no buy is
\* rejected, after every row the position of the ledger is position_size if
\* the strategy's position of that row is 1, and 0 otherwise.
C37_LedgerTracksStrategy ==
    (/\ runs = 1
     /\ pc \in {"row", "finish"}
     /\ idx > 1
     /\ ncalls = Len(trades)) =>
        get_position(positions, symbol) =
            (IF plan.rows[idx - 1].position = 1 THEN position_size ELSE 0)

\* ------------- claims on SimpleMovingAverageStrategy (SpecMovingAverage)

\* The short average is above, or below, the long one at row i of df; neither
\* holds where an average is undefined.
IsAbove(df, i) == Less(df[i].long_ma, df[i].short_ma)
IsBelow(df, i) == Less(df[i].short_ma, df[i].long_ma)

\* C38: SimpleMovingAverageStrategy emits a buy signal at a row only when the
\* short average is above the long one at that row and was not at the row
\* before, a sell signal only when it is below at that row and was not at the
\* row before; every other row, the rows with an undefined average among them,
\* carries the signal 0.
C38_SignalOnCrossoverOnly ==
    plan.decided =>
        LET df == plan.rows
        IN  \A i \in 1..Len(df) :
                LET crossed_up == IsAbove(df, i) /\ (i > 1 => ~IsAbove(df, i - 1))
                    crossed_down == IsBelow(df, i) /\ (i > 1 => ~IsBelow(df, i - 1))
                IN  /\ df[i].signal = 1 => crossed_up
                    /\ df[i].signal = -1 => crossed_down
                    /\ (~crossed_up /\ ~crossed_down) => df[i].signal = 0
                    /\ (df[i].short_ma = NaN \/ df[i].long_ma = NaN) =>
                          df[i].signal = 0

\* C38 witness: the averages of the windows 1 and 2 over the prices 25000,
\* 50000, 50000: undefined at the first row, a buy at the second, and no signal
\* at the third, where the short average is no longer above the long one; the
\* run over these signals has ended.
C38_Witness ==
    /\ plan.decided
    /\ pc = "done"
    /\ Len(plan.rows) = 3
    /\ plan.rows[1].long_ma = NaN /\ plan.rows[1].signal = 0
    /\ plan.rows[2].short_ma = Float(50000, 1)
    /\ plan.rows[2].long_ma = Float(37500, 1)
    /\ plan.rows[2].signal = 1
    /\ plan.rows[3].signal = 0
    /\ Len(trades) = 1

=========================================================================
